---- MODULE Spec2Model ----
(***************************************************************************)
(* Infrared: the Windowed Activity Engine (storage.rs, aggregation.rs,     *)
(* model.rs) and the Multi-Source Aggregator (dashboard.rs).               *)
(*                                                                         *)
(* Time is in whole seconds, as in the life_signals table (ts INTEGER).    *)
(* An f64 average is kept as an exact fraction [num, den] with den > 0;    *)
(* comparisons with 0.2 and 0.8 are done by cross-multiplication.  For     *)
(* |current| < 2^50 the f64 quotient current / average is below the f64    *)
(* literal 0.2 (0.8) exactly when the real quotient is below 1/5 (4/5):    *)
(* at the boundary the average is 5*current (5*current/4), which is        *)
(* representable, and the correctly rounded quotient is the literal.       *)
(***************************************************************************)
EXTENDS Integers, Sequences, FiniteSets, TLC

\* ------------------------------------------------------------------ bounds
Buckets == {"zone-a", "zone-b"}
Weights == {-1, 1, 6}
MaxSignals == 2
TickSeconds == 30
MaxClock == 150
WindowChoices == {0, 1}
WarmthWindows == {1}
MaxNumWindows == 2
MaxLag == 1
Lookbacks == {1, 11}
ScenarioNows == {4200, 4500, 4799}
ScenarioOffsets == {0, 300, 599}
MaxIssues == 3
MaxListed == 2
NumPlaces == 12
HashRotations == {0, 1, 5}
IssueCodes == {<<"U", "A">>, <<"u", "k", "r">>, <<"S", "d">>, <<>>}
IssueStamps == {-1, 0, 7, 1730000000}
IssuePlaces == {<<"U", "k", "r", "a", "i", "n", "e">>, <<"S", "u", "d", "a", "n">>}
CountryFilters == {<<"s", "d">>, <<"u", "k", "r">>}
SourceNames == {"ioda", "cloudflare_radar", "cloudflare", "hdx_hapi", "hdx", "hapi",
                "acled", "reliefweb", "gdacs"}
IssueTimes == {1, 2}
MaxCurrent == 9
MaxAvgNum == 10
MaxAvgDen == 3
MaxEvents == 2
AcledEvents ==
    {[fatalities |-> <<>>, event_date |-> 1], [fatalities |-> <<0>>, event_date |-> 2],
     [fatalities |-> <<1>>, event_date |-> 1], [fatalities |-> <<9>>, event_date |-> 2],
     [fatalities |-> <<49>>, event_date |-> 1], [fatalities |-> <<50>>, event_date |-> 2],
     [fatalities |-> <<99>>, event_date |-> 1]}
QuietSources == {"Ioda", "ReliefWeb"}
MaxRecords == 3
SilentNows == {500}
SilentAges == {0, 60, 61, 420, 421}
HdxRisks ==
    {[overall_risk |-> <<>>, location_name |-> <<"U", "k", "r", "a", "i", "n", "e">>,
      location_code |-> <<"U", "K", "R">>, reference_period_start |-> <<1>>],
     [overall_risk |-> <<0>>, location_name |-> <<"S", "u", "d", "a", "n">>,
      location_code |-> <<"S", "D", "N">>, reference_period_start |-> <<2>>],
     [overall_risk |-> <<499>>, location_name |-> <<"U", "k", "r", "a", "i", "n", "e">>,
      location_code |-> <<"U", "K", "R">>, reference_period_start |-> <<>>],
     [overall_risk |-> <<500>>, location_name |-> <<"S", "u", "d", "a", "n">>,
      location_code |-> <<"S", "D", "N">>, reference_period_start |-> <<2>>],
     [overall_risk |-> <<699>>, location_name |-> <<"U", "k", "r", "a", "i", "n", "e">>,
      location_code |-> <<"U", "K", "R">>, reference_period_start |-> <<1>>],
     [overall_risk |-> <<700>>, location_name |-> <<"S", "u", "d", "a", "n">>,
      location_code |-> <<"S", "D", "N">>, reference_period_start |-> <<>>],
     [overall_risk |-> <<1000>>, location_name |-> <<"U", "k", "r", "a", "i", "n", "e">>,
      location_code |-> <<"U", "K", "R">>, reference_period_start |-> <<1>>]}

\* ------------------------------------------------------- program constants
SecondsPerMinute == 60
NUM_HISTORICAL_WINDOWS == 6
TOP_COUNTRIES == 10
ScenarioWindow == 10
ScenarioWeight == 100

VARIABLES
    store,      \* life_signals rows in insertion (id) order: [bucket, ts, weight]
    clock,      \* Utc::now().timestamp()
    ret,        \* the last completed storage query and its result
    fa,         \* one WarmthStatus::from_activity call: inputs and status
    scan,       \* the generate_alerts call in flight: position and locals
    alertsResp, \* what GET /alerts/recent answered
    fetch,      \* per source: the adapter future joined by get_all_issues
    dash,       \* the Dashboard call in flight: position and result
    getWarmth,  \* the GET /warmth request in flight: position, locals, answer
    lastWarmth, \* the GET /warmth request completed before it
    http,       \* what the dashboard endpoint answered
    built,      \* an Issue under construction: Issue::new and its with_* chain
    top,        \* one DashboardSummary::from_issues call: the issues and top_countries
    adapter     \* one fetch_hdx_issues or fetch_acled_issues call: position and locals

vars == <<store, clock, ret, fa, scan, alertsResp, fetch, dash,
          getWarmth, lastWarmth, http, built, top, adapter>>

\* ------------------------------------------------------------ model.rs
Statuses == {"Alive", "Stressed", "Collapsing", "Dead"}

\* f64 as an exact fraction
Frac(n, d) == [num |-> n, den |-> d]
Zero == Frac(0, 1)

\* from_activity with the thresholds taken inclusively (ratio <= 0.2, ratio <= 0.8)
from_activity_inclusive(current, avg) ==
    IF avg.num <= 0 THEN "Alive"
    ELSE IF current = 0 THEN "Dead"
    ELSE IF 5 * current * avg.den <= avg.num THEN "Collapsing"
    ELSE IF 5 * current * avg.den <= 4 * avg.num THEN "Stressed"
    ELSE "Alive"

\* WarmthStatus::from_activity(current, recent_average)
from_activity(current, avg) ==
    IF avg.num <= 0 THEN "Alive"                         \* recent_average <= 0.0
    ELSE IF current = 0 THEN "Dead"
    ELSE IF 5 * current * avg.den < avg.num THEN "Collapsing"      \* ratio < 0.2
    ELSE IF 5 * current * avg.den < 4 * avg.num THEN "Stressed"    \* ratio < 0.8
    ELSE "Alive"

\* ------------------------------------------------------------ storage.rs
RECURSIVE SumWeights(_, _)
\* SUM(weight) over the rows with index in S
SumWeights(st, S) ==
    IF S = {} THEN 0
    ELSE LET i == CHOOSE x \in S : TRUE
         IN  st[i].weight + SumWeights(st, S \ {i})

\* SQLite integer division: truncates toward zero
SqlDiv(a, b) == IF a >= 0 THEN a \div b ELSE -((-a) \div b)

\* an insert that keeps one row per bucket: INSERT OR REPLACE keyed by bucket
insert_or_replace(st, signal) ==
    LET row == [bucket |-> signal.bucket, ts |-> signal.timestamp, weight |-> signal.weight]
        same == {i \in DOMAIN st : st[i].bucket = signal.bucket}
    IN  IF same = {} THEN Append(st, row)
        ELSE [i \in DOMAIN st |-> IF i \in same THEN row ELSE st[i]]

\* Storage::insert_life_signal
insert_life_signal(st, signal) ==
    Append(st, [bucket |-> signal.bucket, ts |-> signal.timestamp, weight |-> signal.weight])

\* query_bucket_window with the start of the window excluded (ts > start_ts)
query_bucket_window_open(st, bucket, window_minutes, now) ==
    LET start_ts == now - window_minutes * SecondsPerMinute
        rows == {i \in DOMAIN st : st[i].bucket = bucket /\ st[i].ts > start_ts /\ st[i].ts <= now}
    IN  SumWeights(st, rows)

\* Storage::query_bucket_window
query_bucket_window(st, bucket, window_minutes, now) ==
    LET window_seconds == window_minutes * SecondsPerMinute
        now_ts == now
        start_ts == now_ts - window_seconds
        rows == {i \in DOMAIN st : st[i].bucket = bucket /\ st[i].ts >= start_ts /\ st[i].ts <= now_ts}
    IN  SumWeights(st, rows)                             \* COALESCE(SUM(weight), 0)

\* the inner query reaching back without a lower bound (no ts >= start_ts)
HistoryRowsUnbounded(st, bucket, window_minutes, num_windows, now) ==
    LET end_ts == now - window_minutes * SecondsPerMinute
    IN  {i \in DOMAIN st : st[i].bucket = bucket /\ st[i].ts < end_ts}

\* the rows selected by the inner query of compute_recent_average
HistoryRows(st, bucket, window_minutes, num_windows, now) ==
    LET window_seconds == window_minutes * SecondsPerMinute
        total_seconds == window_seconds * num_windows
        now_ts == now
        end_ts == now_ts - window_seconds
        start_ts == end_ts - total_seconds
    IN  {i \in DOMAIN st : st[i].bucket = bucket /\ st[i].ts >= start_ts /\ st[i].ts < end_ts}

\* the window_id values of a GROUP BY over the rows of every bucket
WindowIdsAnyBucket(st, bucket, window_minutes, num_windows, now) ==
    LET window_seconds == window_minutes * SecondsPerMinute
        end_ts == now - window_seconds
        start_ts == end_ts - window_seconds * num_windows
    IN  {SqlDiv(st[i].ts, window_seconds) :
            i \in {j \in DOMAIN st : st[j].ts >= start_ts /\ st[j].ts < end_ts}}

\* the window_id values of the GROUP BY
WindowIds(st, bucket, window_minutes, num_windows, now) ==
    {SqlDiv(st[i].ts, window_minutes * SecondsPerMinute) :
        i \in HistoryRows(st, bucket, window_minutes, num_windows, now)}

RECURSIVE SumTotals(_, _)
\* sum of window_total over the groups in G (T maps a window_id to its window_total)
SumTotals(T, G) ==
    IF G = {} THEN 0
    ELSE LET g == CHOOSE x \in G : TRUE
         IN  T[g] + SumTotals(T, G \ {g})

\* compute_recent_average with a fixed denominator: total / num_windows
compute_recent_average_fixed(st, bucket, window_minutes, num_windows, now) ==
    LET rows == HistoryRows(st, bucket, window_minutes, num_windows, now)
    IN  IF rows = {} THEN Zero ELSE Frac(SumWeights(st, rows), num_windows)

\* Storage::compute_recent_average
compute_recent_average(st, bucket, window_minutes, num_windows, now) ==
    LET window_seconds == window_minutes * SecondsPerMinute
        rows == HistoryRows(st, bucket, window_minutes, num_windows, now)
        ids == WindowIds(st, bucket, window_minutes, num_windows, now)
        window_total == [g \in ids |->
            SumWeights(st, {i \in rows : SqlDiv(st[i].ts, window_seconds) = g})]
    IN  IF ids = {} THEN Zero                            \* COALESCE(AVG(..), 0.0)
        ELSE Frac(SumTotals(window_total, ids), Cardinality(ids))

\* Storage::get_last_seen: MAX(ts) or None
get_last_seen(st, bucket) ==
    LET tss == {st[i].ts : i \in {j \in DOMAIN st : st[j].bucket = bucket}}
    IN  IF tss = {} THEN "None"
        ELSE CHOOSE t \in tss : \A u \in tss : u <= t

\* Storage::get_all_known_buckets: SELECT DISTINCT bucket has no ORDER BY, so every
\* order of the distinct buckets is a possible result
get_all_known_buckets(st) ==
    LET known == {st[i].bucket : i \in DOMAIN st}
    IN  {s \in [1..Cardinality(known) -> known] : \A b \in known : \E k \in DOMAIN s : s[k] = b}

\* ------------------------------------------------------------ aggregation.rs
\* u32::min
Min(a, b) == IF a <= b THEN a ELSE b

\* the window left uncapped
alert_window_uncapped(lookback_minutes) == lookback_minutes

\* the window generate_alerts checks with
alert_window(lookback_minutes) == Min(lookback_minutes, 10)

\* the filter keeping Dead only
is_distress_dead_only(status) == status = "Dead"

\* the filter of generate_alerts: matches!(status, Collapsing | Dead)
is_distress(status) == status \in {"Collapsing", "Dead"}

\* WarmthResponse built by compute_warmth
WarmthResponse(bucket, window_minutes, current_window_total, recent_average) ==
    [bucket |-> bucket, window_minutes |-> window_minutes,
     current_window_total |-> current_window_total,
     recent_average |-> recent_average,
     status |-> from_activity(current_window_total, recent_average)]

\* the f64 n / d (d > 0) cast with `as i32`: the fraction is dropped, toward
\* zero (the totals of a store of MaxSignals signals stay far from the ends of
\* i32, where the cast saturates)
as_i32(n, d) == IF n >= 0 THEN n \div d ELSE -((-n) \div d)

\* generate_alert_message, reduced to the values it formats into the text
generate_alert_message(bucket, status, warmth) ==
    CASE status = "Dead" ->
            [level |-> "CRITICAL", bucket |-> bucket,
             recent_average |-> warmth.recent_average]
      [] status = "Collapsing" ->
            LET percentage ==
                    IF warmth.recent_average.num > 0
                    THEN as_i32(warmth.current_window_total * 100
                                    * warmth.recent_average.den,
                                warmth.recent_average.num)
                    ELSE 0
            IN  [level |-> "WARNING", bucket |-> bucket,
                 current_window_total |-> warmth.current_window_total,
                 percentage |-> percentage,
                 recent_average |-> warmth.recent_average]
      [] OTHER -> [level |-> "status", bucket |-> bucket, status |-> status]

\* Alert pushed by generate_alerts
Alert(warmth, last_seen) ==
    [bucket |-> warmth.bucket, status |-> warmth.status,
     last_seen_timestamp |-> last_seen, recent_average |-> warmth.recent_average,
     message |-> generate_alert_message(warmth.bucket, warmth.status, warmth)]

\* compute_warmth: the window total, the recent average, the status of the two
compute_warmth(st, bucket, window_minutes, now) ==
    WarmthResponse(bucket, window_minutes,
                   query_bucket_window(st, bucket, window_minutes, now),
                   compute_recent_average(st, bucket, window_minutes,
                                          NUM_HISTORICAL_WINDOWS, now))

\* each query of compute_warmth reading the clock for itself
QueryTimeOwnClock(req, clk) == clk

\* compute_warmth hands the now of its caller to both of its queries
QueryTime(req, clk) == req.now

\* GET /warmth before it is called; rows is the number of life_signals rows
\* there were when the handler took now
WarmthIdle ==
    [pc |-> "idle", bucket |-> "", window_minutes |-> 0, now |-> 0, rows |-> 0,
     current_window_total |-> 0, response |-> [status |-> 0]]

ScanIdle ==
    [pc |-> "idle", lookback_minutes |-> 0, now |-> 0, window_minutes |-> 0,
     buckets |-> <<>>, idx |-> 0, current_window_total |-> 0,
     warmth |-> <<>>, alerts |-> <<>>]

\* the loop of generate_alerts moves to the next bucket, or to the return
NextBucket(sc) ==
    IF sc.idx < Len(sc.buckets)
    THEN [sc EXCEPT !.idx = sc.idx + 1, !.pc = "window"]
    ELSE [sc EXCEPT !.pc = "return"]

\* ------------------------------------------------------------ str
\* A string is the sequence of its characters.
UpperCase == <<"A", "B", "C", "D", "E", "F", "G", "H", "I", "J", "K", "L", "M",
               "N", "O", "P", "Q", "R", "S", "T", "U", "V", "W", "X", "Y", "Z">>
LowerCase == <<"a", "b", "c", "d", "e", "f", "g", "h", "i", "j", "k", "l", "m",
               "n", "o", "p", "q", "r", "s", "t", "u", "v", "w", "x", "y", "z">>

\* the lowercase letter of each uppercase letter
LowerOf ==
    [c \in {UpperCase[k] : k \in DOMAIN UpperCase} |->
        LowerCase[CHOOSE k \in DOMAIN UpperCase : UpperCase[k] = c]]

\* char::to_lowercase and u8::to_ascii_lowercase on ASCII
to_lowercase_char(c) == IF c \in DOMAIN LowerOf THEN LowerOf[c] ELSE c

\* str::to_lowercase
to_lowercase(s) == [k \in DOMAIN s |-> to_lowercase_char(s[k])]

\* str::eq_ignore_ascii_case
eq_ignore_ascii_case(a, b) ==
    /\ Len(a) = Len(b)
    /\ \A k \in DOMAIN a : to_lowercase_char(a[k]) = to_lowercase_char(b[k])

\* str::contains with a &str pattern
contains(haystack, needle) ==
    \E at \in 0..(Len(haystack) - Len(needle)) :
        SubSeq(haystack, at + 1, at + Len(needle)) = needle

\* ------------------------------------------------------------ dashboard.rs
\* IssueSeverity derives Ord: Info < Warning < Critical < Emergency
SeverityRank(sev) ==
    CASE sev = "Info" -> 0 [] sev = "Warning" -> 1 [] sev = "Critical" -> 2 [] sev = "Emergency" -> 3

\* the adapters in the order in which get_all_issues joins and collects them
Sources == <<"Ioda", "CloudflareRadar", "HdxHapi", "ReliefWeb", "Acled">>
SourceSet == {Sources[k] : k \in DOMAIN Sources}

\* the category each fetch_*_issues gives its issues
SourceCategory(source) ==
    CASE source = "Ioda" -> "InternetOutage"
      [] source = "CloudflareRadar" -> "TrafficAnomaly"
      [] source = "HdxHapi" -> "HumanitarianEmergency"
      [] source = "ReliefWeb" -> "Disaster"
      [] source = "Acled" -> "Conflict"

\* the severities each fetch_*_issues can assign
SourceSeverities(source) ==
    CASE source = "Ioda" -> {"Critical", "Warning", "Info"}
      [] source = "CloudflareRadar" -> {"Critical", "Warning"}
      [] source = "HdxHapi" -> {"Emergency", "Critical"}
      [] source = "ReliefWeb" -> {"Emergency", "Critical", "Warning"}
      [] source = "Acled" -> {"Emergency", "Critical", "Warning", "Info"}

\* IssueSource::label
SourceLabel(source) ==
    CASE source = "Ioda" -> <<"I", "O", "D", "A">>
      [] source = "CloudflareRadar" -> <<"C", "l", "o", "u", "d", "f", "l", "a", "r", "e", " ", "R", "a", "d", "a", "r">>
      [] source = "HdxHapi" -> <<"H", "D", "X", " ", "H", "A", "P", "I">>
      [] source = "Acled" -> <<"A", "C", "L", "E", "D">>
      [] source = "ReliefWeb" -> <<"R", "e", "l", "i", "e", "f", "W", "e", "b">>

\* the variants of IssueCategory
Categories ==
    {"InternetOutage", "TrafficAnomaly", "Conflict", "FoodSecurity", "Displacement",
     "Disaster", "HumanitarianEmergency"}

\* IssueCategory::label
CategoryLabel(category) ==
    CASE category = "InternetOutage" -> <<"I", "n", "t", "e", "r", "n", "e", "t", " ", "O", "u", "t", "a", "g", "e">>
      [] category = "TrafficAnomaly" -> <<"T", "r", "a", "f", "f", "i", "c", " ", "A", "n", "o", "m", "a", "l", "y">>
      [] category = "Conflict" -> <<"C", "o", "n", "f", "l", "i", "c", "t">>
      [] category = "FoodSecurity" -> <<"F", "o", "o", "d", " ", "S", "e", "c", "u", "r", "i", "t", "y">>
      [] category = "Displacement" -> <<"D", "i", "s", "p", "l", "a", "c", "e", "m", "e", "n", "t">>
      [] category = "Disaster" -> <<"D", "i", "s", "a", "s", "t", "e", "r">>
      [] category = "HumanitarianEmergency" -> <<"H", "u", "m", "a", "n", "i", "t", "a", "r", "i", "a", "n", " ", "E", "m", "e", "r", "g", "e", "n", "c", "y">>

\* str::replace of one character by another
replace(s, from, to) == [k \in DOMAIN s |-> IF s[k] = from THEN to ELSE s[k]]

DecimalDigits == <<"0", "1", "2", "3", "4", "5", "6", "7", "8", "9">>

RECURSIVE Unsigned(_)
\* the decimal digits of n >= 0
Unsigned(n) ==
    IF n < 10 THEN <<DecimalDigits[n + 1]>>
    ELSE Unsigned(n \div 10) \o <<DecimalDigits[(n % 10) + 1]>>

\* Display of an i64, as format! writes timestamp.timestamp()
Display(n) == IF n < 0 THEN <<"-">> \o Unsigned(-n) ELSE Unsigned(n)

\* the id with the labels lowercased only
issue_id_lowercased(source, category, location_code, timestamp) ==
    to_lowercase(SourceLabel(source)) \o <<":">>
    \o to_lowercase(CategoryLabel(category)) \o <<":">>
    \o to_lowercase(location_code) \o <<":">>
    \o Display(timestamp)

\* the format! of Issue::new
issue_id(source, category, location_code, timestamp) ==
    replace(to_lowercase(SourceLabel(source)), " ", "_") \o <<":">>
    \o replace(to_lowercase(CategoryLabel(category)), " ", "_") \o <<":">>
    \o to_lowercase(location_code) \o <<":">>
    \o Display(timestamp)

\* Issue::new
Issue_new(source, category, severity, location, location_code, timestamp) ==
    [id |-> issue_id(source, category, location_code, timestamp),
     source |-> source, category |-> category, severity |-> severity,
     location |-> location, location_code |-> location_code,
     timestamp |-> timestamp, end_timestamp |-> "None", is_ongoing |-> TRUE,
     impact_value |-> "None", impact_label |-> "None", url |-> "None",
     metadata |-> <<>>]

\* Issue::with_end
with_end(issue, end) == [issue EXCEPT !.end_timestamp = end, !.is_ongoing = FALSE]

\* Issue::with_impact
with_impact(issue, value, label) ==
    [issue EXCEPT !.impact_value = value, !.impact_label = label]

\* Issue::with_url
with_url(issue, url) == [issue EXCEPT !.url = url]

\* Issue::with_metadata: HashMap::insert
with_metadata(issue, key, value) ==
    [issue EXCEPT !.metadata =
        [k \in DOMAIN issue.metadata \cup {key} |->
            IF k = key THEN value ELSE issue.metadata[k]]]

\* the place named by the upstream record an adapter turns into an issue: the
\* records of odd times are about Ukraine, those of even times about Sudan;
\* IODA and Cloudflare Radar give alpha-2 codes, the other providers alpha-3
UpstreamPlace(source, timestamp) ==
    LET alpha2 == source \in {"Ioda", "CloudflareRadar"}
    IN  IF timestamp % 2 = 1
        THEN [name |-> <<"U", "k", "r", "a", "i", "n", "e">>,
              code |-> IF alpha2 THEN <<"U", "A">> ELSE <<"U", "K", "R">>]
        ELSE [name |-> <<"S", "u", "d", "a", "n">>,
              code |-> IF alpha2 THEN <<"S", "D">> ELSE <<"S", "D", "N">>]

\* Issue::new as the adapters call it, reduced to the fields the aggregator reads
Issue(source, severity, timestamp) ==
    [source |-> source, category |-> SourceCategory(source),
     severity |-> severity,
     location |-> UpstreamPlace(source, timestamp).name,
     location_code |-> UpstreamPlace(source, timestamp).code,
     timestamp |-> timestamp]

\* the issues one adapter can produce
SourceIssues(source) ==
    {Issue(source, sev, t) : sev \in SourceSeverities(source), t \in IssueTimes}

\* Ordering of Ord::cmp on integers
Cmp(x, y) == IF x < y THEN "Less" ELSE IF x > y THEN "Greater" ELSE "Equal"

\* the comparator without the timestamp tie-break
compare_severity_only(a, b) == Cmp(SeverityRank(b.severity), SeverityRank(a.severity))

\* the comparator of all_issues.sort_by:
\* b.severity.cmp(&a.severity).then_with(|| b.timestamp.cmp(&a.timestamp))
compare(a, b) ==
    LET bySeverity == Cmp(SeverityRank(b.severity), SeverityRank(a.severity))
    IN  IF bySeverity # "Equal" THEN bySeverity
        ELSE Cmp(b.timestamp, a.timestamp)

\* one element inserted into a sorted list behind every element that does not
\* compare Greater than it
StableInsert(sorted, x) ==
    LET behind == {k \in DOMAIN sorted : compare(sorted[k], x) # "Greater"}
        pos == IF behind = {} THEN 0 ELSE CHOOSE k \in behind : \A m \in behind : m <= k
    IN  SubSeq(sorted, 1, pos) \o <<x>> \o SubSeq(sorted, pos + 1, Len(sorted))

RECURSIVE sort_by(_)
\* slice::sort_by: a stable sort under compare
sort_by(s) ==
    IF s = <<>> THEN <<>>
    ELSE StableInsert(sort_by(SubSeq(s, 1, Len(s) - 1)), s[Len(s)])

RECURSIVE CollectUntilError(_, _)
\* the collection giving up the issues once an adapter has failed
CollectUntilError(f, k) ==
    IF k = 0 THEN <<>>
    ELSE IF \E j \in 1..k : f[Sources[j]].state # "ok" THEN <<>>
    ELSE CollectUntilError(f, k - 1) \o f[Sources[k]].issues

RECURSIVE CollectIssues(_, _)
\* the five match blocks of get_all_issues, first k sources: Ok(issues) extends all_issues
CollectIssues(f, k) ==
    IF k = 0 THEN <<>>
    ELSE CollectIssues(f, k - 1) \o
         (IF f[Sources[k]].state = "ok" THEN f[Sources[k]].issues ELSE <<>>)

RECURSIVE CollectErrors(_, _)
\* the five match blocks of get_all_issues, first k sources: Err(e) pushes a SourceError
CollectErrors(f, k) ==
    IF k = 0 THEN <<>>
    ELSE CollectErrors(f, k - 1) \o
         (IF f[Sources[k]].state = "ok" THEN <<>>
          ELSE <<[source |-> Sources[k], message |-> f[Sources[k]].message]>>)

\* from_issues with by_category.insert(label, 1) in place of the += 1
from_issues_overwriting(issues) ==
    LET HasSeverity(sev) == Cardinality({k \in DOMAIN issues : issues[k].severity = sev})
    IN  [total_issues |-> Len(issues),
         emergency_count |-> HasSeverity("Emergency"),
         critical_count |-> HasSeverity("Critical"),
         warning_count |-> HasSeverity("Warning"),
         info_count |-> HasSeverity("Info"),
         by_source |-> [src \in {issues[k].source : k \in DOMAIN issues} |->
                          Cardinality({k \in DOMAIN issues : issues[k].source = src})],
         by_category |-> [cat \in {issues[k].category : k \in DOMAIN issues} |-> 1]]

\* DashboardSummary::from_issues: the counts
from_issues(issues) ==
    LET HasSeverity(sev) == Cardinality({k \in DOMAIN issues : issues[k].severity = sev})
    IN  [total_issues |-> Len(issues),
         emergency_count |-> HasSeverity("Emergency"),
         critical_count |-> HasSeverity("Critical"),
         warning_count |-> HasSeverity("Warning"),
         info_count |-> HasSeverity("Info"),
         by_source |-> [src \in {issues[k].source : k \in DOMAIN issues} |->
                          Cardinality({k \in DOMAIN issues : issues[k].source = src})],
         by_category |-> [cat \in {issues[k].category : k \in DOMAIN issues} |->
                          Cardinality({k \in DOMAIN issues : issues[k].category = cat})]]

RECURSIVE Entries(_, _)
\* the keys of by_country in the order of their first entry() call
Entries(keys, k) ==
    IF k = 0 THEN <<>>
    ELSE LET before == Entries(keys, k - 1)
         IN  IF \E j \in DOMAIN before : before[j] = keys[k] THEN before
             ELSE Append(before, keys[k])

\* HashMap::into_iter: an order of the keys that the map's RandomState decides,
\* here the entries rotated by seed.rot places and reversed if seed.rev
into_iter(entries, seed) ==
    LET n == Len(entries)
        rotated == [j \in 1..n |-> entries[((j - 1 + seed.rot) % n) + 1]]
    IN  IF seed.rev THEN [j \in 1..n |-> rotated[n + 1 - j]] ELSE rotated

RECURSIVE sort_by_count(_)
\* country_counts.sort_by(|a, b| b.1.cmp(&a.1)): stable, greatest count first
sort_by_count(s) ==
    IF s = <<>> THEN <<>>
    ELSE LET sorted == sort_by_count(SubSeq(s, 1, Len(s) - 1))
             x == s[Len(s)]
             behind == {k \in DOMAIN sorted : sorted[k].count >= x.count}
             pos == IF behind = {} THEN 0
                    ELSE CHOOSE k \in behind : \A m \in behind : m <= k
         IN  SubSeq(sorted, 1, pos) \o <<x>> \o SubSeq(sorted, pos + 1, Len(sorted))

\* the key grouping by the location code
country_key_code(issue) == issue.location_code

\* the key of by_country: issue.location.clone()
country_key(issue) == issue.location

\* DashboardSummary::from_issues: top_countries
top_countries(issues, seed) ==
    LET keys == [k \in DOMAIN issues |-> country_key(issues[k])]
        by_country(key) == Cardinality({k \in DOMAIN issues : keys[k] = key})
        iterated == into_iter(Entries(keys, Len(keys)), seed)
        country_counts == [j \in DOMAIN iterated |->
                              [country |-> iterated[j], count |-> by_country(iterated[j])]]
        sorted == sort_by_count(country_counts)
    IN  SubSeq(sorted, 1, Min(TOP_COUNTRIES, Len(sorted)))

\* HdxNationalRisk::is_high_risk with a strict comparison
is_high_risk_strict(risk) ==
    IF risk.overall_risk = <<>> THEN FALSE ELSE risk.overall_risk[1] > 500

\* HdxNationalRisk::is_high_risk: overall_risk.map_or(false, |r| r >= 5.0); a
\* score is counted in hundredths of a point
is_high_risk(risk) ==
    IF risk.overall_risk = <<>> THEN FALSE ELSE risk.overall_risk[1] >= 500

\* HdxNationalRisk::is_very_high_risk: overall_risk.map_or(false, |r| r >= 7.0)
is_very_high_risk(risk) ==
    IF risk.overall_risk = <<>> THEN FALSE ELSE risk.overall_risk[1] >= 700

\* the timestamp fetch_hdx_issues gives an issue: the parsed
\* reference_period_start, or Utc::now() when it is absent or does not parse
hdx_timestamp(risk, now) ==
    IF risk.reference_period_start = <<>> THEN now ELSE risk.reference_period_start[1]

\* the body of the loop of fetch_hdx_issues for one record: what it pushes
hdx_risk_issues(risk, now) ==
    IF is_very_high_risk(risk)
    THEN <<[source |-> "HdxHapi", category |-> "HumanitarianEmergency",
            severity |-> "Emergency", location |-> risk.location_name,
            location_code |-> risk.location_code,
            timestamp |-> hdx_timestamp(risk, now)]>>
    ELSE IF is_high_risk(risk)
    THEN <<[source |-> "HdxHapi", category |-> "HumanitarianEmergency",
            severity |-> "Critical", location |-> risk.location_name,
            location_code |-> risk.location_code,
            timestamp |-> hdx_timestamp(risk, now)]>>
    ELSE <<>>

RECURSIVE hdx_issues(_, _)
\* the loop of fetch_hdx_issues over risk_response.data
hdx_issues(data, now) ==
    IF data = <<>> THEN <<>>
    ELSE hdx_risk_issues(Head(data), now) \o hdx_issues(Tail(data), now)

\* DashboardConfig::monitored_countries of a deployment watching two countries
monitored_countries ==
    <<[name |-> <<"U", "k", "r", "a", "i", "n", "e">>, alpha2 |-> <<"U", "A">>,
       alpha3 |-> <<"U", "K", "R">>],
      [name |-> <<"S", "u", "d", "a", "n">>, alpha2 |-> <<"S", "D">>,
       alpha3 |-> <<"S", "D", "N">>]>>

RECURSIVE total_fatalities(_)
\* AcledResponse::total_fatalities: data.iter().filter_map(|e| e.fatalities).sum();
\* an Option is the empty sequence (None) or a sequence of one value (Some)
total_fatalities(data) ==
    IF data = <<>> THEN 0
    ELSE (IF Head(data).fatalities = <<>> THEN 0 ELSE Head(data).fatalities[1])
         + total_fatalities(Tail(data))

\* AcledResponse::most_recent: max_by_key(event_date), the last of equal maxima
most_recent(data) ==
    IF data = <<>> THEN <<>>
    ELSE LET newest == {k \in DOMAIN data :
                           \A j \in DOMAIN data : data[j].event_date <= data[k].event_date}
         IN  <<data[CHOOSE k \in newest : \A j \in newest : j <= k]>>

\* AcledEvent::datetime: the event date at midnight UTC
datetime(event) == event.event_date

\* the severity ladder that misses the boundaries
acled_severity_exclusive(total) ==
    IF total > 100 THEN "Emergency"
    ELSE IF total > 50 THEN "Critical"
    ELSE IF total > 10 THEN "Warning"
    ELSE "Info"

\* the severity ladder of fetch_acled_issues
acled_severity(total) ==
    IF total >= 100 THEN "Emergency"
    ELSE IF total >= 50 THEN "Critical"
    ELSE IF total >= 10 THEN "Warning"
    ELSE "Info"

\* the body of the loop of fetch_acled_issues for one country's response: what
\* it pushes onto issues
acled_country_issues(country, data, now) ==
    IF total_fatalities(data) > 0
    THEN LET timestamp == IF most_recent(data) = <<>> THEN now
                          ELSE datetime(most_recent(data)[1])
         IN  <<[source |-> "Acled", category |-> "Conflict",
                severity |-> acled_severity(total_fatalities(data)),
                location |-> country.name, location_code |-> country.alpha3,
                timestamp |-> timestamp]>>
    ELSE <<>>

\* a failed fetch that still hands back the issues collected before it
AcledPartial(issues) == [state |-> "ok", issues |-> issues, message |-> ""]

\* get_events_with_fatalities(..).await? inside the loop: the error leaves
\* fetch_acled_issues and the issues collected so far are dropped
AcledFailure(issues) == [state |-> "err", issues |-> <<>>, message |-> "fetch failed"]

\* the join of try_join!: ready as soon as one future has failed
JoinReadyOnFirstError(f) ==
    \/ \E src \in SourceSet : f[src].state = "err"
    \/ \A src \in SourceSet : f[src].state \in {"ok", "err"}

\* tokio::join! is ready when every one of its futures has completed
JoinReady(f) == \A src \in SourceSet : f[src].state \in {"ok", "err"}

\* a join that hands out the results in the order of completion: the k-th
\* name of the tuple receives the result of the k-th future to complete
JoinedByCompletion(f, completed) ==
    [src \in SourceSet |->
        f[completed[CHOOSE k \in DOMAIN Sources : Sources[k] = src]]]

\* tokio::join! returns the outputs in the order of its arguments, whatever the
\* order in which the futures completed
Joined(f, completed) == f

\* the DashboardResponse get_all_issues builds from the joined results
BuildResponse(f) ==
    LET all_issues == sort_by(CollectIssues(f, Len(Sources)))
    IN  [ok |-> TRUE, summary |-> from_issues(all_issues),
         issues |-> all_issues, errors |-> CollectErrors(f, Len(Sources))]

FetchIdle == [state |-> "idle", issues |-> <<>>, message |-> ""]
FetchPending == [state |-> "pending", issues |-> <<>>, message |-> ""]

\* the filter also taking a part of the location code
matches_code_part(issue, country_code) ==
    \/ contains(to_lowercase(issue.location_code), to_lowercase(country_code))
    \/ contains(to_lowercase(issue.location), to_lowercase(country_code))

\* the filter closure of get_issues_by_country
matches_country(issue, country_code) ==
    \/ eq_ignore_ascii_case(issue.location_code, country_code)
    \/ contains(to_lowercase(issue.location), to_lowercase(country_code))

\* Dashboard::get_issues_by_country after get_all_issues has returned all
get_issues_by_country(all, country_code) ==
    SelectSeq(all.issues, LAMBDA issue : matches_country(issue, country_code))

\* every adapter started, as get_all_issues does
AllFutures(source) == [src \in SourceSet |-> FetchPending]

\* the futures Dashboard::get_issues_by_source creates: the one arm matched
SourceFuture(source) ==
    [src \in SourceSet |-> IF src = source THEN FetchPending ELSE FetchIdle]

\* Dashboard::get_issues_by_source: the Result of the awaited fetch_*_issues
get_issues_by_source(f, source) ==
    IF f[source].state = "ok"
    THEN [ok |-> TRUE, issues |-> f[source].issues]
    ELSE [ok |-> FALSE, error |-> f[source].message]

\* ------------------------------------------------------------ api.rs
\* the match on source_str of get_dashboard and get_dashboard_by_source
parse_source(source_str) ==
    CASE source_str = "ioda" -> "Ioda"
      [] source_str \in {"cloudflare_radar", "cloudflare"} -> "CloudflareRadar"
      [] source_str \in {"hdx_hapi", "hdx", "hapi"} -> "HdxHapi"
      [] source_str = "acled" -> "Acled"
      [] source_str = "reliefweb" -> "ReliefWeb"
      [] OTHER -> "BAD_REQUEST"

\* the DashboardResponse the filtered handlers build from the issues they got
FilteredResponse(issues) ==
    [summary |-> from_issues(issues), issues |-> issues, errors |-> <<>>]
DashIdle == [pc |-> "idle"]

RECURSIVE SeqsUpTo(_, _)
\* the sequences over S of length at most n
SeqsUpTo(S, n) ==
    IF n = 0 THEN {<<>>}
    ELSE LET shorter == SeqsUpTo(S, n - 1)
         IN  shorter \cup {Append(q, x) : q \in {r \in shorter : Len(r) = n - 1}, x \in S}

RECURSIVE Fetched(_, _)
\* number of issues the first k adapters have delivered
Fetched(f, k) == IF k = 0 THEN 0 ELSE Fetched(f, k - 1) + Len(f[Sources[k]].issues)

\* a finished call's result lasts until the next step of the system
NoRet == [op |-> "none"]
NoResp == [status |-> 0]
Finished(sc) == sc.pc \in {"returned", "failed"}
Delivered(sc) == IF Finished(sc) THEN ScanIdle ELSE sc
DeliveredResp(sc, resp) == IF Finished(sc) THEN NoResp ELSE resp
NoIssue == [pc |-> "none"]
NoSummary == [pc |-> "none"]
AdapterIdle == [pc |-> "idle"]

\* ------------------------------------------------------------ initial states
InitIdle ==
    /\ store = <<>>
    /\ clock = 0
    /\ ret = NoRet
    /\ fa = [current |-> 0, avg |-> Zero, status |-> "unset"]
    /\ scan = ScanIdle
    /\ alertsResp = NoResp
    /\ fetch = [src \in SourceSet |-> FetchIdle]
    /\ dash = DashIdle
    /\ getWarmth = WarmthIdle
    /\ lastWarmth = WarmthIdle
    /\ http = NoResp
    /\ adapter = AdapterIdle
    /\ built = NoIssue
    /\ top = NoSummary

\* the store of test_compute_warmth_alive after its seven inserts, oldest first:
\* one signal in each of the NUM_HISTORICAL_WINDOWS windows before the current
\* one (at[k] seconds into the k-th, counted back from now) and one in the
\* current window; compute_warmth(bucket, 10, now) is about to run
ScenarioStore(now, at, cur) ==
    LET ws == ScenarioWindow * SecondsPerMinute
        historical(k) == [bucket |-> "zone-a", ts |-> now - ws * (k + 1) + at[k],
                          weight |-> ScenarioWeight]
    IN  [j \in 1..NUM_HISTORICAL_WINDOWS |-> historical(NUM_HISTORICAL_WINDOWS + 1 - j)]
        \o <<[bucket |-> "zone-a", ts |-> now - ws + cur, weight |-> ScenarioWeight]>>

InitScenario ==
    /\ \E now \in ScenarioNows, cur \in ScenarioOffsets :
       \E at \in [1..NUM_HISTORICAL_WINDOWS -> ScenarioOffsets] :
          /\ store = ScenarioStore(now, at, cur)
          /\ clock = now
          /\ getWarmth = [WarmthIdle EXCEPT !.pc = "window", !.bucket = "zone-a",
                             !.window_minutes = ScenarioWindow, !.now = now,
                             !.rows = NUM_HISTORICAL_WINDOWS + 1]
    /\ ret = NoRet
    /\ fa = [current |-> 0, avg |-> Zero, status |-> "unset"]
    /\ scan = ScanIdle
    /\ alertsResp = NoResp
    /\ fetch = [src \in SourceSet |-> FetchIdle]
    /\ dash = DashIdle
    /\ lastWarmth = WarmthIdle
    /\ http = NoResp
    /\ adapter = AdapterIdle
    /\ built = NoIssue
    /\ top = NoSummary

\* the outcomes of the five adapters: those of failed have failed, each other
\* one has returned the issues of listed that are its own, in their order
Outcomes(listed, failed) ==
    [src \in SourceSet |->
        IF src \in failed
        THEN [state |-> "err", issues |-> <<>>, message |-> "fetch failed"]
        ELSE [state |-> "ok", message |-> "",
              issues |-> SelectSeq(listed, LAMBDA issue : issue.source = src)]]

\* get_all_issues has just returned to the handler that called it: at most one
\* adapter has failed, the others have returned at most MaxListed issues
InitReturned ==
    /\ \E listed \in SeqsUpTo(UNION {SourceIssues(src) : src \in SourceSet}, MaxListed),
          failed \in {{}} \cup {{src} : src \in SourceSet} :
          /\ \A k \in DOMAIN listed : listed[k].source \notin failed
          /\ fetch = Outcomes(listed, failed)
          /\ dash = [pc |-> "returned", response |-> BuildResponse(Outcomes(listed, failed))]
    /\ store = <<>>
    /\ clock = 0
    /\ ret = NoRet
    /\ fa = [current |-> 0, avg |-> Zero, status |-> "unset"]
    /\ scan = ScanIdle
    /\ alertsResp = NoResp
    /\ getWarmth = WarmthIdle
    /\ lastWarmth = WarmthIdle
    /\ http = NoResp
    /\ adapter = AdapterIdle
    /\ built = NoIssue
    /\ top = NoSummary

\* what an adapter returns when it has something to report
UpstreamIssues(source) ==
    CASE source = "Ioda" -> <<Issue("Ioda", "Warning", 1)>>
      [] source = "CloudflareRadar" -> <<>>
      [] source = "HdxHapi" -> <<Issue("HdxHapi", "Emergency", 2), Issue("HdxHapi", "Critical", 1)>>
      [] source = "ReliefWeb" -> <<Issue("ReliefWeb", "Critical", 1)>>
      [] source = "Acled" -> <<Issue("Acled", "Critical", 1), Issue("Acled", "Info", 2)>>

\* get_all_issues has created its five futures and polls them: what each will
\* resolve to is settled, the order in which they complete is not
InitJoin ==
    /\ \E failed \in SUBSET SourceSet :
          dash = [pc |-> "polling", completed |-> <<>>,
                  futures |-> [src \in SourceSet |->
                     IF src \in failed
                     THEN [state |-> "err", issues |-> <<>>, message |-> "fetch failed"]
                     ELSE [state |-> "ok", issues |-> UpstreamIssues(src), message |-> ""]]]
    /\ fetch = [src \in SourceSet |-> FetchPending]
    /\ store = <<>>
    /\ clock = 0
    /\ ret = NoRet
    /\ fa = [current |-> 0, avg |-> Zero, status |-> "unset"]
    /\ scan = ScanIdle
    /\ alertsResp = NoResp
    /\ getWarmth = WarmthIdle
    /\ lastWarmth = WarmthIdle
    /\ http = NoResp
    /\ adapter = AdapterIdle
    /\ built = NoIssue
    /\ top = NoSummary

\* get_all_issues has started its five fetches and four of them have completed,
\* at most one with an error; fetch_acled_issues is about to run
InitAcled ==
    /\ \E failed \in {{}} \cup {{src} : src \in SourceSet \ {"Acled"}},
          quiet \in SUBSET QuietSources :
          fetch = [src \in SourceSet |->
                     IF src = "Acled" THEN FetchPending
                     ELSE IF src \in failed
                     THEN [state |-> "err", issues |-> <<>>, message |-> "fetch failed"]
                     ELSE [state |-> "ok", message |-> "",
                           issues |-> IF src \in quiet THEN <<>> ELSE UpstreamIssues(src)]]
    /\ dash = [pc |-> "joining"]
    /\ store = <<>>
    /\ clock = 0
    /\ ret = NoRet
    /\ fa = [current |-> 0, avg |-> Zero, status |-> "unset"]
    /\ scan = ScanIdle
    /\ alertsResp = NoResp
    /\ getWarmth = WarmthIdle
    /\ lastWarmth = WarmthIdle
    /\ http = NoResp
    /\ adapter = AdapterIdle
    /\ built = NoIssue
    /\ top = NoSummary

\* the service has been up for a while: the store holds at most MaxSignals
\* signals, posted SilentAges seconds ago, in the order of their posting
InitSilent ==
    /\ \E now \in SilentNows :
       \E posted \in SeqsUpTo([bucket : Buckets, ts : {now - age : age \in SilentAges},
                               weight : Weights], MaxSignals) :
          /\ \A k \in 1..(Len(posted) - 1) : posted[k].ts <= posted[k + 1].ts
          /\ store = posted
          /\ clock = now
    /\ ret = NoRet
    /\ fa = [current |-> 0, avg |-> Zero, status |-> "unset"]
    /\ scan = ScanIdle
    /\ alertsResp = NoResp
    /\ fetch = [src \in SourceSet |-> FetchIdle]
    /\ dash = DashIdle
    /\ getWarmth = WarmthIdle
    /\ lastWarmth = WarmthIdle
    /\ http = NoResp
    /\ adapter = AdapterIdle
    /\ built = NoIssue
    /\ top = NoSummary

\* get_issues_by_source(HdxHapi) has matched its arm: fetch_hdx_issues is about
\* to run
InitHdx ==
    /\ fetch = SourceFuture("HdxHapi")
    /\ dash = [pc |-> "by_source", source |-> "HdxHapi"]
    /\ store = <<>>
    /\ clock = 0
    /\ ret = NoRet
    /\ fa = [current |-> 0, avg |-> Zero, status |-> "unset"]
    /\ scan = ScanIdle
    /\ alertsResp = NoResp
    /\ getWarmth = WarmthIdle
    /\ lastWarmth = WarmthIdle
    /\ http = NoResp
    /\ adapter = AdapterIdle
    /\ built = NoIssue
    /\ top = NoSummary

\* the arguments of one Issue::new call
InitIssue ==
    /\ \E source \in SourceSet, category \in Categories,
          severity \in {"Info", "Emergency"}, location \in IssuePlaces,
          location_code \in IssueCodes, timestamp \in IssueStamps :
          built = [pc |-> "args", source |-> source, category |-> category,
                   severity |-> severity, location |-> location,
                   location_code |-> location_code, timestamp |-> timestamp]
    /\ store = <<>>
    /\ clock = 0
    /\ ret = NoRet
    /\ fa = [current |-> 0, avg |-> Zero, status |-> "unset"]
    /\ scan = ScanIdle
    /\ alertsResp = NoResp
    /\ fetch = [src \in SourceSet |-> FetchIdle]
    /\ dash = DashIdle
    /\ getWarmth = WarmthIdle
    /\ lastWarmth = WarmthIdle
    /\ http = NoResp
    /\ adapter = AdapterIdle
    /\ top = NoSummary

\* the location of the k-th place and its code: two places share each code
PlaceName(k) == <<"c">> \o Unsigned(k)
PlaceCode(k) == <<"k">> \o Unsigned((k + 1) \div 2)

RECURSIVE PlaceIssues(_, _)
\* a list with count[j] issues located at place j, for the first k places
PlaceIssues(count, k) ==
    IF k = 0 THEN <<>>
    ELSE PlaceIssues(count, k - 1) \o
         [j \in 1..count[k] |->
            [source |-> "Acled", category |-> "Conflict", severity |-> "Warning",
             location |-> PlaceName(k), location_code |-> PlaceCode(k),
             timestamp |-> j]]

\* the argument of one DashboardSummary::from_issues call and the iteration
\* order of its by_country map
InitSummary ==
    /\ \E n \in 1..NumPlaces, rot \in HashRotations, rev \in BOOLEAN :
       \E count \in [1..n -> {1, 2}] :
          top = [pc |-> "args", issues |-> PlaceIssues(count, n),
                 seed |-> [rot |-> rot, rev |-> rev]]
    /\ store = <<>>
    /\ clock = 0
    /\ ret = NoRet
    /\ fa = [current |-> 0, avg |-> Zero, status |-> "unset"]
    /\ scan = ScanIdle
    /\ alertsResp = NoResp
    /\ fetch = [src \in SourceSet |-> FetchIdle]
    /\ dash = DashIdle
    /\ getWarmth = WarmthIdle
    /\ lastWarmth = WarmthIdle
    /\ http = NoResp
    /\ adapter = AdapterIdle
    /\ built = NoIssue

\* ------------------------------------------------------------ actions
\* time passes
Tick ==
    /\ clock + TickSeconds <= MaxClock
    /\ clock' = clock + TickSeconds
    /\ ret' = NoRet
    /\ scan' = Delivered(scan)
    /\ alertsResp' = DeliveredResp(scan, alertsResp)
    /\ UNCHANGED <<store, fa, fetch, dash, getWarmth, lastWarmth, http, built, top, adapter>>

\* api.rs post_signal: the timestamp is Utc::now(), the weight is the request's
PostSignal ==
    /\ Len(store) < MaxSignals
    /\ \E bucket \in Buckets, weight \in Weights :
          store' = insert_life_signal(store,
                      [bucket |-> bucket, timestamp |-> clock, weight |-> weight])
    /\ ret' = NoRet
    /\ scan' = Delivered(scan)
    /\ alertsResp' = DeliveredResp(scan, alertsResp)
    /\ getWarmth' = IF getWarmth.pc \in {"done", "failed"} THEN WarmthIdle ELSE getWarmth
    /\ lastWarmth' = WarmthIdle
    /\ UNCHANGED <<clock, fa, fetch, dash, http, built, top, adapter>>

\* a caller took now and then ran Storage::query_bucket_window
QueryBucketWindow ==
    /\ \E bucket \in Buckets, w \in WindowChoices, lag \in 0..MaxLag :
          LET now == clock - lag * TickSeconds
          IN  /\ now >= 0
              /\ ret' = [op |-> "query_bucket_window", bucket |-> bucket,
                         window_minutes |-> w, now |-> now,
                         total |-> query_bucket_window(store, bucket, w, now)]
    /\ UNCHANGED <<store, clock, fa, scan, alertsResp, fetch, dash, getWarmth, lastWarmth, http, built, top, adapter>>

\* a caller took now and then ran Storage::compute_recent_average
ComputeRecentAverage ==
    /\ \E bucket \in Buckets, w \in WindowChoices, n \in 1..MaxNumWindows :
          ret' = [op |-> "compute_recent_average", bucket |-> bucket,
                  window_minutes |-> w, num_windows |-> n, now |-> clock,
                  avg |-> compute_recent_average(store, bucket, w, n, clock)]
    /\ UNCHANGED <<store, clock, fa, scan, alertsResp, fetch, dash, getWarmth, lastWarmth, http, built, top, adapter>>

\* WarmthStatus::from_activity applied to the drawn inputs
FromActivity ==
    /\ fa.status = "unset"
    /\ fa' = [fa EXCEPT !.status = from_activity(fa.current, fa.avg)]
    /\ UNCHANGED <<store, clock, ret, scan, alertsResp, fetch, dash, getWarmth, lastWarmth, http, built, top, adapter>>

\* api.rs get_alerts: now = Utc::now(), then generate_alerts up to its first await
GetAlerts ==
    /\ scan.pc \in {"idle", "returned", "failed"}
    /\ \E lookback_minutes \in Lookbacks :
          scan' = [ScanIdle EXCEPT !.pc = "buckets",
                                   !.lookback_minutes = lookback_minutes,
                                   !.now = clock,
                                   !.window_minutes = alert_window(lookback_minutes)]
    /\ alertsResp' = NoResp
    /\ UNCHANGED <<store, clock, ret, fa, fetch, dash, getWarmth, lastWarmth, http, built, top, adapter>>

\* generate_alerts: storage.get_all_known_buckets().await? succeeded
ScanBuckets ==
    /\ scan.pc = "buckets"
    /\ \E order \in get_all_known_buckets(store) :
          scan' = IF order = <<>>
                  THEN [scan EXCEPT !.pc = "return"]
                  ELSE [scan EXCEPT !.buckets = order, !.idx = 1, !.pc = "window"]
    /\ UNCHANGED <<store, clock, ret, fa, alertsResp, fetch, dash, getWarmth, lastWarmth, http, built, top, adapter>>

\* compute_warmth: storage.query_bucket_window(..).await? succeeded
ScanWindow ==
    /\ scan.pc = "window"
    /\ scan' = [scan EXCEPT
          !.current_window_total =
              query_bucket_window(store, scan.buckets[scan.idx], scan.window_minutes, scan.now),
          !.pc = "average"]
    /\ UNCHANGED <<store, clock, ret, fa, alertsResp, fetch, dash, getWarmth, lastWarmth, http, built, top, adapter>>

\* compute_warmth: storage.compute_recent_average(..).await? succeeded; the status is
\* derived and generate_alerts decides whether the bucket is alerted on
ScanAverage ==
    /\ scan.pc = "average"
    /\ LET bucket == scan.buckets[scan.idx]
           recent_average == compute_recent_average(store, bucket, scan.window_minutes,
                                                    NUM_HISTORICAL_WINDOWS, scan.now)
           warmth == WarmthResponse(bucket, scan.window_minutes,
                                    scan.current_window_total, recent_average)
           sc == [scan EXCEPT !.warmth = Append(scan.warmth, warmth)]
       IN  scan' = IF is_distress(warmth.status)
                   THEN [sc EXCEPT !.pc = "last_seen"]
                   ELSE NextBucket(sc)
    /\ UNCHANGED <<store, clock, ret, fa, alertsResp, fetch, dash, getWarmth, lastWarmth, http, built, top, adapter>>

\* generate_alerts: storage.get_last_seen(..).await? succeeded; the alert is pushed
ScanLastSeen ==
    /\ scan.pc = "last_seen"
    /\ LET warmth == scan.warmth[Len(scan.warmth)]
           last_seen == get_last_seen(store, scan.buckets[scan.idx])
       IN  scan' = NextBucket([scan EXCEPT !.alerts = Append(scan.alerts, Alert(warmth, last_seen))])
    /\ UNCHANGED <<store, clock, ret, fa, alertsResp, fetch, dash, getWarmth, lastWarmth, http, built, top, adapter>>

\* generate_alerts returns Ok(AlertsResponse); get_alerts answers 200 with it
ScanReturn ==
    /\ scan.pc = "return"
    /\ alertsResp' = [status |-> 200,
                      body |-> [alerts |-> scan.alerts,
                                lookback_minutes |-> scan.lookback_minutes]]
    /\ scan' = [scan EXCEPT !.pc = "returned"]
    /\ UNCHANGED <<store, clock, ret, fa, fetch, dash, getWarmth, lastWarmth, http, built, top, adapter>>

\* the failure answered with the alerts collected so far
PartialResult(sc) ==
    [status |-> 200,
     body |-> [alerts |-> sc.alerts, lookback_minutes |-> sc.lookback_minutes]]

\* what generate_alerts hands back when a store call fails: the ? operator returns
\* the error and the alerts collected so far are dropped
ErrorResult(sc) == [status |-> 500]

\* a store call of generate_alerts fails; get_alerts answers 500
StoreError ==
    /\ scan.pc \in {"buckets", "window", "average", "last_seen"}
    /\ alertsResp' = ErrorResult(scan)
    /\ scan' = [scan EXCEPT !.pc = "failed"]
    /\ UNCHANGED <<store, clock, ret, fa, fetch, dash, getWarmth, lastWarmth, http, built, top, adapter>>

\* Dashboard::get_all_issues up to the join: the five fetches are started together
GetAllIssues ==
    /\ dash.pc \in {"idle", "returned", "source_returned"}
    /\ fetch' = [src \in SourceSet |-> FetchPending]
    /\ dash' = [pc |-> "joining"]
    /\ http' = NoResp
    /\ UNCHANGED <<store, clock, ret, fa, scan, alertsResp, getWarmth, lastWarmth, built, top, adapter>>

\* one adapter's fetch_*_issues completes with Ok(issues)
AdapterOk ==
    /\ dash.pc \in {"joining", "by_source"}
    /\ \E src \in SourceSet :
          /\ fetch[src].state = "pending"
          /\ \E issues \in SeqsUpTo(SourceIssues(src), MaxIssues - Fetched(fetch, Len(Sources))) :
                fetch' = [fetch EXCEPT ![src] = [state |-> "ok", issues |-> issues, message |-> ""]]
    /\ UNCHANGED <<store, clock, ret, fa, scan, alertsResp, dash, getWarmth, lastWarmth, http, built, top, adapter>>

\* one adapter's fetch_*_issues completes with Err(e)
AdapterErr ==
    /\ dash.pc \in {"joining", "by_source"}
    /\ \E src \in SourceSet :
          /\ fetch[src].state = "pending"
          /\ fetch' = [fetch EXCEPT ![src] = [state |-> "err", issues |-> <<>>, message |-> "fetch failed"]]
    /\ UNCHANGED <<store, clock, ret, fa, scan, alertsResp, dash, getWarmth, lastWarmth, http, built, top, adapter>>

\* Dashboard::get_all_issues after the join: collect, sort, summarise, return
JoinAndCollect ==
    /\ dash.pc = "joining"
    /\ JoinReady(fetch)
    /\ dash' = [pc |-> "returned", response |-> BuildResponse(fetch)]
    /\ UNCHANGED <<store, clock, ret, fa, scan, alertsResp, fetch, getWarmth, lastWarmth, http, built, top, adapter>>

\* api.rs get_dashboard without a filter: Ok(response) => Ok(Json(response))
DashboardAll ==
    /\ dash.pc = "returned"
    /\ http = NoResp
    /\ http' = [status |-> 200, by |-> "all", filter |-> "",
                body |-> [summary |-> dash.response.summary,
                          issues |-> dash.response.issues,
                          errors |-> dash.response.errors]]
    /\ UNCHANGED <<store, clock, ret, fa, scan, alertsResp, fetch, dash, getWarmth, lastWarmth, built, top, adapter>>

\* api.rs get_dashboard with a country and get_dashboard_by_country (the same
\* code), once the get_all_issues call inside get_issues_by_country has returned
DashboardByCountry ==
    /\ dash.pc = "returned"
    /\ http = NoResp
    /\ \E country \in CountryFilters :
          http' = [status |-> 200, by |-> "country", filter |-> country,
                   body |-> FilteredResponse(get_issues_by_country(dash.response, country))]
    /\ UNCHANGED <<store, clock, ret, fa, scan, alertsResp, fetch, dash, getWarmth, lastWarmth, built, top, adapter>>

\* api.rs get_dashboard with a source and get_dashboard_by_source (the same
\* code): the name is a source, Dashboard::get_issues_by_source is called
GetIssuesBySource ==
    /\ dash.pc \in {"idle", "source_returned"}
    /\ \E source_str \in SourceNames :
          /\ parse_source(source_str) # "BAD_REQUEST"
          /\ dash' = [pc |-> "by_source", source |-> parse_source(source_str)]
          /\ fetch' = SourceFuture(parse_source(source_str))
    /\ http' = NoResp
    /\ UNCHANGED <<store, clock, ret, fa, scan, alertsResp, getWarmth, lastWarmth, built, top, adapter>>

\* the same two handlers: the name is no source
DashboardBadSource ==
    /\ dash.pc = "idle"
    /\ \E source_str \in SourceNames :
          /\ parse_source(source_str) = "BAD_REQUEST"
          /\ http' = [status |-> 400, by |-> "source", filter |-> source_str]
    /\ UNCHANGED <<store, clock, ret, fa, scan, alertsResp, fetch, dash, getWarmth, lastWarmth, built, top, adapter>>

\* get_issues_by_source returns what its adapter returned; the handler answers
\* Ok(issues) with a DashboardResponse and Err(e) with 500
DashboardBySource ==
    /\ dash.pc = "by_source"
    /\ fetch[dash.source].state \in {"ok", "err"}
    /\ LET result == get_issues_by_source(fetch, dash.source)
       IN  /\ dash' = [pc |-> "source_returned", source |-> dash.source,
                       result |-> result]
           /\ http' = IF result.ok
                      THEN [status |-> 200, by |-> "source", filter |-> dash.source,
                            body |-> FilteredResponse(result.issues)]
                      ELSE [status |-> 500, by |-> "source", filter |-> dash.source]
    /\ UNCHANGED <<store, clock, ret, fa, scan, alertsResp, fetch, getWarmth, lastWarmth, built, top, adapter>>

\* Issue::new on the arguments drawn
IssueNew ==
    /\ built.pc = "args"
    /\ built' = [pc |-> "built", args |-> built, chain |-> {},
                 issue |-> Issue_new(built.source, built.category, built.severity,
                                     built.location, built.location_code,
                                     built.timestamp)]
    /\ UNCHANGED <<store, clock, ret, fa, scan, alertsResp, fetch, dash, getWarmth, lastWarmth, http, top, adapter>>

\* .with_end(end) on the issue built so far
WithEnd ==
    /\ built.pc = "built" /\ "with_end" \notin built.chain
    /\ built' = [built EXCEPT !.chain = @ \cup {"with_end"},
                              !.issue = with_end(@, built.args.timestamp + 7200)]
    /\ UNCHANGED <<store, clock, ret, fa, scan, alertsResp, fetch, dash, getWarmth, lastWarmth, http, top, adapter>>

\* .with_impact(value, label)
WithImpact ==
    /\ built.pc = "built" /\ "with_impact" \notin built.chain
    /\ built' = [built EXCEPT !.chain = @ \cup {"with_impact"},
                              !.issue = with_impact(@, 50, "drop_percentage")]
    /\ UNCHANGED <<store, clock, ret, fa, scan, alertsResp, fetch, dash, getWarmth, lastWarmth, http, top, adapter>>

\* .with_url(url)
WithUrl ==
    /\ built.pc = "built" /\ "with_url" \notin built.chain
    /\ built' = [built EXCEPT !.chain = @ \cup {"with_url"},
                              !.issue = with_url(@, "https://reliefweb.int")]
    /\ UNCHANGED <<store, clock, ret, fa, scan, alertsResp, fetch, dash, getWarmth, lastWarmth, http, top, adapter>>

\* .with_metadata(key, value)
WithMetadata ==
    /\ built.pc = "built" /\ "with_metadata" \notin built.chain
    /\ built' = [built EXCEPT !.chain = @ \cup {"with_metadata"},
                              !.issue = with_metadata(@, "glide", "EQ-2024")]
    /\ UNCHANGED <<store, clock, ret, fa, scan, alertsResp, fetch, dash, getWarmth, lastWarmth, http, top, adapter>>

\* DashboardSummary::from_issues on the issues drawn
FromIssues ==
    /\ top.pc = "args"
    /\ top' = [pc |-> "done", issues |-> top.issues, seed |-> top.seed,
               summary |-> from_issues(top.issues),
               top_countries |-> top_countries(top.issues, top.seed)]
    /\ UNCHANGED <<store, clock, ret, fa, scan, alertsResp, fetch, dash, getWarmth, lastWarmth, http, built, adapter>>

\* api.rs get_warmth: takes now and calls compute_warmth; the request answered
\* before it is kept when it asked for the same bucket and window
GetWarmth ==
    /\ getWarmth.pc \in {"idle", "done", "failed"}
    /\ \E bucket \in Buckets, window_minutes \in WarmthWindows :
          /\ getWarmth' = [WarmthIdle EXCEPT !.pc = "window", !.bucket = bucket,
                              !.window_minutes = window_minutes,
                              !.now = clock, !.rows = Len(store)]
          /\ lastWarmth' = IF /\ getWarmth.pc = "done"
                              /\ getWarmth.bucket = bucket
                              /\ getWarmth.window_minutes = window_minutes
                           THEN getWarmth ELSE WarmthIdle
    /\ UNCHANGED <<store, clock, ret, fa, scan, alertsResp, fetch, dash, http, built, top, adapter>>

\* compute_warmth: store.query_bucket_window(bucket, window_minutes, now).await?
WarmthWindow ==
    /\ getWarmth.pc = "window"
    /\ getWarmth' = [getWarmth EXCEPT !.pc = "average",
                       !.current_window_total =
                           query_bucket_window(store, getWarmth.bucket,
                               getWarmth.window_minutes, QueryTime(getWarmth, clock))]
    /\ UNCHANGED <<store, clock, ret, fa, scan, alertsResp, fetch, dash, lastWarmth, http, built, top, adapter>>

\* compute_warmth: store.compute_recent_average(..).await?, the status, Ok(response)
WarmthAverage ==
    /\ getWarmth.pc = "average"
    /\ getWarmth' = [getWarmth EXCEPT !.pc = "done",
                       !.response = [status |-> 200, body |->
                           WarmthResponse(getWarmth.bucket, getWarmth.window_minutes,
                               getWarmth.current_window_total,
                               compute_recent_average(store, getWarmth.bucket,
                                   getWarmth.window_minutes, NUM_HISTORICAL_WINDOWS,
                                   QueryTime(getWarmth, clock)))]]
    /\ UNCHANGED <<store, clock, ret, fa, scan, alertsResp, fetch, dash, lastWarmth, http, built, top, adapter>>

\* a store call of compute_warmth fails: get_warmth answers 500
WarmthStoreError ==
    /\ getWarmth.pc \in {"window", "average"}
    /\ getWarmth' = [getWarmth EXCEPT !.pc = "failed", !.response = [status |-> 500]]
    /\ UNCHANGED <<store, clock, ret, fa, scan, alertsResp, fetch, dash, lastWarmth, http, built, top, adapter>>

\* tokio::join! polls the futures: one more of them completes
PollReady ==
    /\ dash.pc = "polling"
    /\ \E src \in SourceSet :
          /\ fetch[src].state = "pending"
          /\ fetch' = [fetch EXCEPT ![src] = dash.futures[src]]
          /\ dash' = [dash EXCEPT !.completed = Append(@, src)]
    /\ UNCHANGED <<store, clock, ret, fa, scan, alertsResp, getWarmth, lastWarmth, http, built, top, adapter>>

\* get_all_issues after the join of the polled futures: collect, sort,
\* summarise, return
JoinPolled ==
    /\ dash.pc = "polling"
    /\ JoinReady(fetch)
    /\ dash' = [pc |-> "returned", completed |-> dash.completed,
                futures |-> dash.futures,
                response |-> BuildResponse(Joined(fetch, dash.completed))]
    /\ UNCHANGED <<store, clock, ret, fa, scan, alertsResp, fetch, getWarmth, lastWarmth, http, built, top, adapter>>

\* fetch_hdx_issues when get_national_risk answers: every record is graded
FetchHdxIssuesOk ==
    /\ adapter.pc = "idle"
    /\ dash.pc \in {"joining", "by_source"}
    /\ fetch["HdxHapi"].state = "pending"
    /\ \E data \in SeqsUpTo(HdxRisks, MaxRecords) :
          /\ adapter' = [pc |-> "hdx_returned",
                         risk_response |-> [state |-> "ok", data |-> data],
                         issues |-> hdx_issues(data, clock)]
          /\ fetch' = [fetch EXCEPT !["HdxHapi"] =
                          [state |-> "ok", issues |-> hdx_issues(data, clock),
                           message |-> ""]]
    /\ UNCHANGED <<store, clock, ret, fa, scan, alertsResp, dash, getWarmth, lastWarmth, http, built, top>>

\* fetch_hdx_issues when get_national_risk fails: ? returns the error
FetchHdxIssuesErr ==
    /\ adapter.pc = "idle"
    /\ dash.pc \in {"joining", "by_source"}
    /\ fetch["HdxHapi"].state = "pending"
    /\ adapter' = [pc |-> "hdx_returned",
                   risk_response |-> [state |-> "err", data |-> <<>>],
                   issues |-> <<>>]
    /\ fetch' = [fetch EXCEPT !["HdxHapi"] =
                    [state |-> "err", issues |-> <<>>, message |-> "fetch failed"]]
    /\ UNCHANGED <<store, clock, ret, fa, scan, alertsResp, dash, getWarmth, lastWarmth, http, built, top>>

\* fetch_acled_issues up to its loop: Ok(Vec::new()) when ACLED is not configured
FetchAcledIssues ==
    /\ adapter.pc = "idle"
    /\ dash.pc \in {"joining", "by_source"}
    /\ fetch["Acled"].state = "pending"
    /\ \E configured \in BOOLEAN :
          IF configured
          THEN /\ adapter' = [pc |-> "acled_loop", country |-> 1, issues |-> <<>>,
                               response |-> [state |-> "none", data |-> <<>>]]
               /\ fetch' = fetch
          ELSE /\ adapter' = [pc |-> "returned", country |-> 1, issues |-> <<>>,
                               response |-> [state |-> "none", data |-> <<>>]]
               /\ fetch' = [fetch EXCEPT !["Acled"] =
                               [state |-> "ok", issues |-> <<>>, message |-> ""]]
    /\ UNCHANGED <<store, clock, ret, fa, scan, alertsResp, dash, getWarmth, lastWarmth, http, built, top>>

\* one turn of the loop of fetch_acled_issues: the fetch for the next monitored
\* country answers and its fatalities are summed and graded
AcledCountryOk ==
    /\ adapter.pc = "acled_loop"
    /\ adapter.country <= Len(monitored_countries)
    /\ \E data \in SeqsUpTo(AcledEvents, MaxEvents) :
          adapter' = [adapter EXCEPT
                        !.issues = @ \o acled_country_issues(
                                          monitored_countries[adapter.country], data, clock),
                        !.country = @ + 1,
                        !.response = [state |-> "ok", data |-> data]]
    /\ UNCHANGED <<store, clock, ret, fa, scan, alertsResp, fetch, dash, getWarmth, lastWarmth, http, built, top>>

\* one turn of the loop of fetch_acled_issues: the fetch for the next monitored
\* country fails and ? returns the error
AcledCountryErr ==
    /\ adapter.pc = "acled_loop"
    /\ adapter.country <= Len(monitored_countries)
    /\ adapter' = [adapter EXCEPT !.pc = "returned",
                                  !.response = [state |-> "err", data |-> <<>>]]
    /\ fetch' = [fetch EXCEPT !["Acled"] = AcledFailure(adapter.issues)]
    /\ UNCHANGED <<store, clock, ret, fa, scan, alertsResp, dash, getWarmth, lastWarmth, http, built, top>>

\* fetch_acled_issues after its loop: Ok(issues)
AcledReturn ==
    /\ adapter.pc = "acled_loop"
    /\ adapter.country > Len(monitored_countries)
    /\ adapter' = [adapter EXCEPT !.pc = "returned"]
    /\ fetch' = [fetch EXCEPT !["Acled"] =
                    [state |-> "ok", issues |-> adapter.issues, message |-> ""]]
    /\ UNCHANGED <<store, clock, ret, fa, scan, alertsResp, dash, getWarmth, lastWarmth, http, built, top>>

\* ------------------------------------------------------------ specifications
InitStatus ==
    /\ store = <<>> /\ clock = 0 /\ ret = NoRet
    /\ scan = ScanIdle /\ alertsResp = NoResp
    /\ fetch = [src \in SourceSet |-> FetchIdle] /\ dash = DashIdle
    /\ getWarmth = WarmthIdle /\ lastWarmth = WarmthIdle
    /\ http = NoResp /\ built = NoIssue /\ top = NoSummary
    /\ adapter = AdapterIdle
    /\ \E current \in -2..MaxCurrent, n \in -1..MaxAvgNum, d \in 1..MaxAvgDen :
          fa = [current |-> current, avg |-> Frac(n, d), status |-> "unset"]

NextStatus == FromActivity
SpecStatus == InitStatus /\ [][NextStatus]_vars

NextStore == Tick \/ PostSignal \/ QueryBucketWindow \/ ComputeRecentAverage
SpecStore == InitIdle /\ [][NextStore]_vars

NextAlerts ==
    \/ Tick \/ PostSignal \/ GetAlerts \/ ScanBuckets \/ ScanWindow
    \/ ScanAverage \/ ScanLastSeen \/ ScanReturn \/ StoreError
SpecAlerts == InitIdle /\ [][NextAlerts]_vars

NextWarmth ==
    Tick \/ PostSignal \/ GetWarmth \/ WarmthWindow \/ WarmthAverage \/ WarmthStoreError
SpecWarmth == InitIdle /\ [][NextWarmth]_vars

NextScenario == WarmthWindow \/ WarmthAverage
SpecScenario == InitScenario /\ [][NextScenario]_vars

NextBySource ==
    \/ GetIssuesBySource \/ AdapterOk \/ AdapterErr
    \/ DashboardBySource \/ DashboardBadSource
SpecBySource == InitIdle /\ [][NextBySource]_vars

NextAnswer == DashboardAll \/ DashboardByCountry
SpecAnswer == InitReturned /\ [][NextAnswer]_vars

NextIssue == IssueNew \/ WithEnd \/ WithImpact \/ WithUrl \/ WithMetadata
SpecIssue == InitIssue /\ [][NextIssue]_vars

NextSummary == FromIssues
SpecSummary == InitSummary /\ [][NextSummary]_vars

NextDashboard == GetAllIssues \/ AdapterOk \/ AdapterErr \/ JoinAndCollect
SpecDashboard == InitIdle /\ [][NextDashboard]_vars

NextAcled ==
    FetchAcledIssues \/ AcledCountryOk \/ AcledCountryErr \/ AcledReturn \/ JoinAndCollect
SpecAcled == InitAcled /\ [][NextAcled]_vars

NextHdx == FetchHdxIssuesOk \/ FetchHdxIssuesErr \/ DashboardBySource
SpecHdx == InitHdx /\ [][NextHdx]_vars

NextSilent ==
    GetAlerts \/ ScanBuckets \/ ScanWindow \/ ScanAverage \/ ScanLastSeen \/ ScanReturn
SpecSilent == InitSilent /\ [][NextSilent]_vars

NextJoin == PollReady \/ JoinPolled
SpecJoin == InitJoin /\ [][NextJoin]_vars

Init == InitIdle
Next ==
    \/ NextStore \/ NextAlerts \/ NextDashboard \/ NextWarmth \/ NextBySource
    \/ NextAnswer \/ NextIssue \/ NextSummary \/ NextStatus
    \/ NextAcled \/ NextHdx \/ NextJoin
Spec == Init /\ [][Next]_vars

\* ------------------------------------------------------------ properties

\* C1: from_activity(current, average) is Alive when average <= 0; otherwise Dead
\* when current = 0; otherwise Collapsing when current < 0.2 * average; otherwise
\* Stressed when current < 0.8 * average; otherwise Alive.  current = 0.2 * average
\* gives Stressed and current = 0.8 * average gives Alive.
C1_StatusThresholds ==
    fa.status # "unset" =>
        LET c == fa.current
            n == fa.avg.num
            d == fa.avg.den
        IN  /\ n <= 0 => fa.status = "Alive"
            /\ n > 0 /\ c = 0 => fa.status = "Dead"
            /\ n > 0 /\ c # 0 /\ 5 * c * d < n => fa.status = "Collapsing"
            /\ n > 0 /\ c # 0 /\ 5 * c * d >= n /\ 5 * c * d < 4 * n => fa.status = "Stressed"
            /\ n > 0 /\ 5 * c * d >= 4 * n => fa.status = "Alive"
            /\ n > 0 /\ 5 * c * d = n => fa.status = "Stressed"
            /\ n > 0 /\ 5 * c * d = 4 * n => fa.status = "Alive"

\* a call at the boundary current = 0.2 * average has answered Stressed
C1_Witness ==
    /\ fa.status = "Stressed"
    /\ fa.avg.num > 0
    /\ 5 * fa.current * fa.avg.den = fa.avg.num

\* the issues of the response that equal x, and those of the successful adapters
CountIn(q, x) == Cardinality({k \in DOMAIN q : q[k] = x})
RECURSIVE CountOk(_, _)
CountOk(S, x) ==
    IF S = {} THEN 0
    ELSE LET src == CHOOSE y \in S : TRUE
         IN  (IF fetch[src].state = "ok" THEN CountIn(fetch[src].issues, x) ELSE 0)
             + CountOk(S \ {src}, x)
AllIssueKinds == UNION {SourceIssues(src) : src \in SourceSet}
\* the issues that occur in the response or in an adapter's result
SeenIssues ==
    {dash.response.issues[k] : k \in DOMAIN dash.response.issues}
        \cup UNION {{fetch[src].issues[k] : k \in DOMAIN fetch[src].issues} : src \in SourceSet}

\* C2: get_all_issues always returns Ok; its issues are exactly the issues of the
\* successful adapters (none lost, none duplicated) and its errors hold exactly
\* one SourceError, tagged with the source, per failed adapter and none for a
\* successful one.
C2_FailureIsolation ==
    dash.pc = "returned" =>
        /\ dash.response.ok
        /\ \A x \in SeenIssues : CountIn(dash.response.issues, x) = CountOk(SourceSet, x)
        /\ SeenIssues \subseteq AllIssueKinds
        /\ \A src \in SourceSet :
              Cardinality({k \in DOMAIN dash.response.errors :
                              dash.response.errors[k].source = src})
                  = IF fetch[src].state = "err" THEN 1 ELSE 0
        /\ \A k \in DOMAIN dash.response.errors : dash.response.errors[k].source \in SourceSet

\* one adapter failed, four succeeded, and the response carries issues and one error
C2_Witness ==
    /\ dash.pc = "returned"
    /\ Cardinality({src \in SourceSet : fetch[src].state = "err"}) = 1
    /\ Len(dash.response.errors) = 1
    /\ Len(dash.response.issues) >= 2
    /\ fetch["Ioda"].state = "err"

\* C3: the five fetches are started together and get_all_issues returns only
\* when every one of them has completed: not on the first failure and not while
\* an adapter is still pending.
C3_JoinBarrier ==
    /\ dash.pc = "joining" => \A src \in SourceSet : fetch[src].state # "idle"
    /\ dash.pc = "returned" => \A src \in SourceSet : fetch[src].state \in {"ok", "err"}

\* an adapter has failed while another is still pending, and the call has not returned
C3_Witness ==
    /\ dash.pc = "joining"
    /\ \E src \in SourceSet : fetch[src].state = "err"
    /\ \E src \in SourceSet : fetch[src].state = "pending"

\* position of a source in the merge order of get_all_issues
SourcePos(source) == CHOOSE k \in DOMAIN Sources : Sources[k] = source
SameKey(a, b) == a.severity = b.severity /\ a.timestamp = b.timestamp

\* C4: in the returned issues every adjacent pair (a, b) has a.severity >= b.severity
\* under Emergency > Critical > Warning > Info and, for equal severities,
\* a.timestamp >= b.timestamp; issues equal in both keep their merge order.
C4_SortedBySeverityThenTime ==
    dash.pc = "returned" =>
        LET q == dash.response.issues
        IN  /\ \A k \in 1..(Len(q) - 1) :
                  \/ SeverityRank(q[k].severity) > SeverityRank(q[k + 1].severity)
                  \/ /\ q[k].severity = q[k + 1].severity
                     /\ q[k].timestamp >= q[k + 1].timestamp
            /\ \A i, j \in DOMAIN q :
                  i < j /\ SameKey(q[i], q[j]) => SourcePos(q[i].source) <= SourcePos(q[j].source)

\* three issues were sorted: two equal in both keys from different sources, and one
\* of the same severity with another timestamp
C4_Witness ==
    /\ dash.pc = "returned"
    /\ Len(dash.response.issues) = 3
    /\ \E i, j \in DOMAIN dash.response.issues :
          /\ i < j
          /\ SameKey(dash.response.issues[i], dash.response.issues[j])
          /\ dash.response.issues[i].source # dash.response.issues[j].source
    /\ \E i, j \in DOMAIN dash.response.issues :
          /\ dash.response.issues[i].severity = dash.response.issues[j].severity
          /\ dash.response.issues[i].timestamp # dash.response.issues[j].timestamp

\* the rows and bins of the history interval of the compute_recent_average call in ret
RetHistory ==
    {i \in DOMAIN store :
        /\ store[i].bucket = ret.bucket
        /\ store[i].ts >= ret.now - ret.window_minutes * 60 * (ret.num_windows + 1)
        /\ store[i].ts < ret.now - ret.window_minutes * 60}
RetBins == {store[i].ts \div (ret.window_minutes * 60) : i \in RetHistory}

\* C5: compute_recent_average returns the total weight of the bucket's signals in
\* the history interval divided by the number of distinct bins floor(ts /
\* window_seconds) holding such a signal, and 0.0 when the interval holds none.
C5_AverageOverOccupiedBins ==
    ret.op = "compute_recent_average" =>
        IF RetHistory = {} THEN ret.avg = Zero
        ELSE /\ ret.avg.num = SumWeights(store, RetHistory)
             /\ ret.avg.den = Cardinality(RetBins)

\* an average over fewer occupied bins than num_windows: total / 1 with num_windows = 2
C5_Witness ==
    /\ ret.op = "compute_recent_average"
    /\ ret.num_windows = 2
    /\ Cardinality(RetHistory) = 2
    /\ Cardinality(RetBins) = 1
    /\ ret.avg.num = 7

\* C6: the signals of the history interval are binned by floor(ts / window_seconds)
\* and, for every now, fall into at most num_windows distinct bins.
C6_AtMostNumWindowsBins ==
    ret.op = "compute_recent_average" =>
        /\ ret.avg.den =
              IF RetHistory = {} THEN 1 ELSE Cardinality(RetBins)
        /\ Cardinality(RetBins) <= ret.num_windows

\* the rows of the window of the query_bucket_window call in ret
RetWindow ==
    {i \in DOMAIN store :
        /\ store[i].bucket = ret.bucket
        /\ ret.now - ret.window_minutes * 60 <= store[i].ts
        /\ store[i].ts <= ret.now}
RetBucketRows == {i \in DOMAIN store : store[i].bucket = ret.bucket}

\* C7: query_bucket_window returns the sum of the weights of exactly the bucket's
\* signals with now - w*60 <= ts <= now, 0 when there is none; a bucket holding one
\* signal of weight k at time t has window sum k for every now in [t, t + w*60].
C7_WindowSumInclusive ==
    ret.op = "query_bucket_window" =>
        /\ ret.total = SumWeights(store, RetWindow)
        /\ RetWindow = {} => ret.total = 0
        /\ \A i \in RetBucketRows :
              /\ RetBucketRows = {i}
              /\ store[i].ts <= ret.now
              /\ ret.now <= store[i].ts + ret.window_minutes * 60
              => ret.total = store[i].weight

\* the only signal of the bucket lies exactly window_minutes before now and is counted
C7_Witness ==
    /\ ret.op = "query_bucket_window"
    /\ ret.window_minutes = 1
    /\ \E i \in DOMAIN store :
          /\ RetBucketRows = {i}
          /\ store[i].ts = ret.now - 60
          /\ store[i].weight = 6
          /\ ret.total = 6

\* the status of a bucket on the current store, as the scan in flight computes it
ScanStatus(bucket) ==
    from_activity(
        query_bucket_window(store, bucket, scan.window_minutes, scan.now),
        compute_recent_average(store, bucket, scan.window_minutes,
                               NUM_HISTORICAL_WINDOWS, scan.now))
InDistress(bucket) == ScanStatus(bucket) \in {"Collapsing", "Dead"}
RECURSIVE Alerted(_)
\* the buckets of a list of warmth responses whose status is Collapsing or Dead
Alerted(ws) ==
    IF ws = <<>> THEN <<>>
    ELSE Alerted(SubSeq(ws, 1, Len(ws) - 1)) \o
         (IF ws[Len(ws)].status \in {"Collapsing", "Dead"}
          THEN <<[bucket |-> ws[Len(ws)].bucket, status |-> ws[Len(ws)].status]>>
          ELSE <<>>)

\* C8: generate_alerts returns exactly one alert for each known bucket whose
\* compute_warmth status is Collapsing or Dead and none for an Alive or Stressed
\* bucket, in the order of enumeration; over an empty store the list is empty.
\* A signal written in the very second of now may or may not precede the scan's
\* queries, so the statuses are compared with the store only when there is none.
C8_AlertsExactlyDistressed ==
    scan.pc = "returned" =>
        LET alerts == alertsResp.body.alerts
        IN  /\ alertsResp.status = 200
            /\ [k \in DOMAIN alerts |-> [bucket |-> alerts[k].bucket, status |-> alerts[k].status]]
                  = Alerted(scan.warmth)
            /\ [k \in DOMAIN scan.warmth |-> scan.warmth[k].bucket] = scan.buckets
            /\ \A i, j \in DOMAIN scan.buckets : scan.buckets[i] = scan.buckets[j] => i = j
            /\ store = <<>> => alerts = <<>>
            /\ (\A i \in DOMAIN store : store[i].ts # scan.now) =>
                  /\ [k \in DOMAIN alerts |-> alerts[k].bucket] = SelectSeq(scan.buckets, InDistress)
                  /\ \A k \in DOMAIN alerts : alerts[k].status = ScanStatus(alerts[k].bucket)
                  /\ \A i \in DOMAIN store :
                        store[i].ts < scan.now =>
                            \E k \in DOMAIN scan.buckets : scan.buckets[k] = store[i].bucket

\* two buckets were scanned, the second enumerated is alerted on and the first is not
C8_Witness ==
    /\ scan.pc = "returned"
    /\ Len(scan.buckets) = 2
    /\ Len(alertsResp.body.alerts) = 1
    /\ alertsResp.body.alerts[1].bucket = scan.buckets[2]
    /\ alertsResp.body.alerts[1].status = "Dead"
    /\ \A i \in DOMAIN store : store[i].ts # scan.now

\* C9: when a store call fails during generate_alerts the call answers with one
\* error and no alert list, whatever alerts it had collected before the failure.
C9_NoPartialAlerts ==
    scan.pc = "failed" =>
        /\ alertsResp.status = 500
        /\ "body" \notin DOMAIN alertsResp

\* the store failed after an alert had been collected
C9_Witness ==
    /\ scan.pc = "failed"
    /\ Len(scan.alerts) >= 1
    /\ alertsResp.status = 500

\* C10: generate_alerts evaluates every bucket with window_minutes =
\* min(lookback, 10) and echoes the caller's lookback unchanged in lookback_minutes.
C10_CappedWindowEchoedLookback ==
    /\ \A k \in DOMAIN scan.warmth :
          scan.warmth[k].window_minutes =
              IF scan.lookback_minutes <= 10 THEN scan.lookback_minutes ELSE 10
    /\ scan.pc # "idle" =>
          scan.window_minutes = IF scan.lookback_minutes <= 10 THEN scan.lookback_minutes ELSE 10
    /\ scan.pc = "returned" => alertsResp.body.lookback_minutes = scan.lookback_minutes

\* a scan asked for 11 minutes evaluated a bucket with a 10 minute window and echoed 11
C10_Witness ==
    /\ scan.pc = "returned"
    /\ scan.lookback_minutes = 11
    /\ Len(scan.warmth) >= 1
    /\ scan.warmth[1].window_minutes = 10
    /\ alertsResp.body.lookback_minutes = 11

\* C11 (as stated): two GET /warmth requests for the same bucket and
\* window_minutes, with no signal inserted from the first taking its now to the
\* second answering, return the same current_window_total, recent_average and status
C11_RepeatedWarmthIdentical ==
    (/\ getWarmth.pc = "done" /\ lastWarmth.pc = "done"
     /\ lastWarmth.rows = Len(store))
    => /\ getWarmth.response.body.current_window_total =
             lastWarmth.response.body.current_window_total
       /\ getWarmth.response.body.recent_average = lastWarmth.response.body.recent_average
       /\ getWarmth.response.body.status = lastWarmth.response.body.status

\* C11 (amended): two GET /warmth requests for the same bucket and window_minutes
\* that take the same now, with no signal inserted from the first taking its now
\* to the second answering, return the same current_window_total,
\* recent_average and status
C11_SameNowSameWarmth ==
    (/\ getWarmth.pc = "done" /\ lastWarmth.pc = "done"
     /\ lastWarmth.rows = Len(store)
     /\ getWarmth.now = lastWarmth.now)
    => /\ getWarmth.response.body.current_window_total =
             lastWarmth.response.body.current_window_total
       /\ getWarmth.response.body.recent_average = lastWarmth.response.body.recent_average
       /\ getWarmth.response.body.status = lastWarmth.response.body.status

\* two answers of one second over a bucket with signals, time having passed
\* inside the second request
C11_Witness ==
    /\ getWarmth.pc = "done" /\ lastWarmth.pc = "done"
    /\ lastWarmth.rows = Len(store)
    /\ getWarmth.now = lastWarmth.now
    /\ clock > getWarmth.now
    /\ getWarmth.response.body.current_window_total > 0
    /\ getWarmth.response.body.status # "Dead"

\* the rows of the bucket asked for with a timestamp in [from, to)
WarmthRowsIn(from, to) ==
    {i \in DOMAIN store : /\ store[i].bucket = getWarmth.bucket
                          /\ from <= store[i].ts /\ store[i].ts < to}

\* each of the six windows [now - 10(k+1) min, now - 10k min) holds exactly one
\* signal of the bucket, of weight 100, and so does the current window
SixWindowsScenario ==
    LET ws == ScenarioWindow * SecondsPerMinute
        now == getWarmth.now
        OneOfWeight(rows) ==
            /\ Cardinality(rows) = 1
            /\ \A i \in rows : store[i].weight = ScenarioWeight
    IN  /\ getWarmth.window_minutes = ScenarioWindow
        /\ \A k \in 1..6 : OneOfWeight(WarmthRowsIn(now - ws * (k + 1), now - ws * k))
        /\ OneOfWeight(WarmthRowsIn(now - ws, now + 1))

\* C12: with exactly one signal of weight 100 in each of the six 10-minute
\* windows before the current one and exactly one in the current window,
\* compute_warmth(bucket, 10, now) returns status Alive
C12_SixWindowsAlive ==
    (getWarmth.pc = "done" /\ SixWindowsScenario)
    => getWarmth.response.body.status = "Alive"

\* a is b up to the case of its letters
SameIgnoringCase(a, b) == to_lowercase(a) = to_lowercase(b)

\* part occurs in whole as a run of consecutive characters, up to case
OccursIn(part, whole) ==
    \E from \in 0..Len(whole) :
        /\ from + Len(part) <= Len(whole)
        /\ SameIgnoringCase(SubSeq(whole, from + 1, from + Len(part)), part)

\* C13: get_issues_by_country(code) returns exactly the issues of get_all_issues,
\* in their order, whose location_code equals code ignoring case or whose
\* location contains code ignoring case; a code that is only a proper part of the
\* location_code and no part of the location does not match
C13_CountryFilter ==
    (http.status = 200 /\ http.by = "country")
    => LET all == dash.response.issues
           code == http.filter
           got == http.body.issues
           Wanted(issue) == \/ SameIgnoringCase(issue.location_code, code)
                            \/ OccursIn(code, issue.location)
       IN  /\ got = SelectSeq(all, Wanted)
           /\ \A k \in DOMAIN all :
                 (/\ OccursIn(code, all[k].location_code)
                  /\ ~SameIgnoringCase(all[k].location_code, code)
                  /\ ~OccursIn(code, all[k].location))
                 => \A j \in DOMAIN got : got[j] # all[k]

\* the filter "sd" kept an issue coded SD and dropped one coded SDN
C13_Witness ==
    /\ http.status = 200 /\ http.by = "country"
    /\ http.filter = <<"s", "d">>
    /\ \E j \in DOMAIN http.body.issues :
          http.body.issues[j].location_code = <<"S", "D">>
    /\ \E k \in DOMAIN dash.response.issues :
          dash.response.issues[k].location_code = <<"S", "D", "N">>
    /\ Len(http.body.issues) < Len(dash.response.issues)

\* C14: get_issues_by_source(source) calls the adapter of that source and no
\* other, and returns what it returned: its issues as they are on success, its
\* error as the error of the call (answered 500) on failure
C14_BySourceOnlyThatAdapter ==
    /\ dash.pc \in {"by_source", "source_returned"}
       => \A src \in SourceSet \ {dash.source} : fetch[src].state = "idle"
    /\ dash.pc = "source_returned"
       => LET outcome == fetch[dash.source]
          IN  /\ outcome.state = "ok"
                 => /\ dash.result = [ok |-> TRUE, issues |-> outcome.issues]
                    /\ http.status = 200
                    /\ http.body.issues = outcome.issues
              /\ outcome.state = "err"
                 => /\ dash.result = [ok |-> FALSE, error |-> outcome.message]
                    /\ http.status = 500

\* a by-source call whose adapter failed
C14_Witness ==
    /\ dash.pc = "source_returned"
    /\ dash.source = "HdxHapi"
    /\ fetch["HdxHapi"].state = "err"
    /\ ~dash.result.ok
    /\ http.status = 500

\* C17: the issues of every successful dashboard response, unfiltered, filtered
\* by country or filtered by source, are sorted by severity, highest first, and
\* then by timestamp, newest first
C17_EveryDashboardListSorted ==
    (http.status = 200)
    => \A j \in DOMAIN http.body.issues, k \in DOMAIN http.body.issues :
          j < k => compare(http.body.issues[j], http.body.issues[k]) # "Greater"

\* C18: the errors of every dashboard response name each source whose fetch
\* failed while the response was built
C18_ErrorsNameFailedSources ==
    (http.status = 200)
    => \A src \in SourceSet :
          fetch[src].state = "err"
          => \E e \in DOMAIN http.body.errors : http.body.errors[e].source = src

\* C15: every signal held in the store has weight >= 0
C15_WeightsNonNegative == \A i \in DOMAIN store : store[i].weight >= 0

\* the buckets with a row in st
KnownBuckets(st) == {st[i].bucket : i \in DOMAIN st}

\* C16: the store is append-only: a step that changes it adds exactly one row
\* behind the rows there were and leaves those as they were, so the known
\* buckets never shrink and no bucket's last_seen decreases
C16_AppendOnly ==
    [][/\ Len(store') \in {Len(store), Len(store) + 1}
       /\ SubSeq(store', 1, Len(store)) = store
       /\ KnownBuckets(store) \subseteq KnownBuckets(store')
       /\ \A bucket \in KnownBuckets(store) :
             get_last_seen(store', bucket) >= get_last_seen(store, bucket)]_vars

\* generate_alerts has run over a store of two signals of one bucket, the
\* second inserted later than the first
C16_Witness ==
    /\ Len(store) >= 2
    /\ store[1].bucket = store[2].bucket
    /\ store[1].ts < store[2].ts
    /\ scan.pc = "returned"

\* C19 (as stated): the id of an Issue is lowercase(source label) ':'
\* lowercase(category label) ':' lowercase(location_code) ':' unix timestamp,
\* whatever was called on it after Issue::new
C19_IdOfLowercasedLabels ==
    (built.pc = "built")
    => built.issue.id =
         to_lowercase(SourceLabel(built.args.source)) \o <<":">>
         \o to_lowercase(CategoryLabel(built.args.category)) \o <<":">>
         \o to_lowercase(built.args.location_code) \o <<":">>
         \o Display(built.args.timestamp)

\* the source part and the category part of an id
SourcePart(x) ==
             CASE x = "Ioda" -> <<"i", "o", "d", "a">>
               [] x = "CloudflareRadar" -> <<"c", "l", "o", "u", "d", "f", "l", "a", "r", "e", "_", "r", "a", "d", "a", "r">>
               [] x = "HdxHapi" -> <<"h", "d", "x", "_", "h", "a", "p", "i">>
               [] x = "Acled" -> <<"a", "c", "l", "e", "d">>
               [] x = "ReliefWeb" -> <<"r", "e", "l", "i", "e", "f", "w", "e", "b">>
CategoryPart(x) ==
             CASE x = "InternetOutage" -> <<"i", "n", "t", "e", "r", "n", "e", "t", "_", "o", "u", "t", "a", "g", "e">>
               [] x = "TrafficAnomaly" -> <<"t", "r", "a", "f", "f", "i", "c", "_", "a", "n", "o", "m", "a", "l", "y">>
               [] x = "Conflict" -> <<"c", "o", "n", "f", "l", "i", "c", "t">>
               [] x = "FoodSecurity" -> <<"f", "o", "o", "d", "_", "s", "e", "c", "u", "r", "i", "t", "y">>
               [] x = "Displacement" -> <<"d", "i", "s", "p", "l", "a", "c", "e", "m", "e", "n", "t">>
               [] x = "Disaster" -> <<"d", "i", "s", "a", "s", "t", "e", "r">>
               [] x = "HumanitarianEmergency" -> <<"h", "u", "m", "a", "n", "i", "t", "a", "r", "i", "a", "n", "_", "e", "m", "e", "r", "g", "e", "n", "c", "y">>

RECURSIVE DigitsValue(_)
\* the number a run of decimal digits, with an optional sign in front, denotes
DigitsValue(d) ==
    IF d = <<>> THEN 0
    ELSE IF d[1] = "-" THEN -DigitsValue(Tail(d))
    ELSE LET last == CHOOSE v \in 0..9 : DecimalDigits[v + 1] = d[Len(d)]
         IN  10 * DigitsValue(SubSeq(d, 1, Len(d) - 1)) + last

\* C19 (amended): the id of an Issue is the lowercased source label with its
\* spaces replaced by '_', ':', the lowercased category label with its spaces
\* replaced by '_', ':', the lowercased location_code, ':', the unix timestamp
\* in decimal; it depends on these four arguments only and is what Issue::new
\* made it after any of with_end, with_impact, with_url, with_metadata
C19_IdOfSnakeCaseLabels ==
    (built.pc = "built")
    => LET id == built.issue.id
           src == SourcePart(built.args.source)
           cat == CategoryPart(built.args.category)
           code == built.args.location_code
           head == Len(src) + 1 + Len(cat) + 1 + Len(code) + 1
       IN  /\ Len(id) > head
           /\ SubSeq(id, 1, Len(src)) = src
           /\ id[Len(src) + 1] = ":"
           /\ SubSeq(id, Len(src) + 2, Len(src) + 1 + Len(cat)) = cat
           /\ id[Len(src) + Len(cat) + 2] = ":"
           /\ \A k \in DOMAIN code :
                 id[Len(src) + Len(cat) + 2 + k] = to_lowercase_char(code[k])
           /\ id[head] = ":"
           /\ DigitsValue(SubSeq(id, head + 1, Len(id))) = built.args.timestamp
           /\ \A k \in (head + 1)..Len(id) :
                 id[k] = "-" \/ \E v \in 0..9 : DecimalDigits[v + 1] = id[k]

\* a Cloudflare Radar issue of category Humanitarian Emergency with a mixed-case
\* code, after all four builders
C19_Witness ==
    /\ built.pc = "built"
    /\ built.args.source = "CloudflareRadar"
    /\ built.args.category = "HumanitarianEmergency"
    /\ built.args.location_code = <<"S", "d">>
    /\ built.args.timestamp = 1730000000
    /\ built.chain = {"with_end", "with_impact", "with_url", "with_metadata"}
    /\ ~built.issue.is_ongoing
    /\ built.issue.url # "None"

\* the issues of a list located in the k-th monitored country
IssuesOf(issues, k) ==
    SelectSeq(issues, LAMBDA issue : issue.location = monitored_countries[k].name)

RECURSIVE FatalitiesSum(_, _)
\* the fatalities reported by the first n events of a batch, unreported ones skipped
FatalitiesSum(data, n) ==
    IF n = 0 THEN 0
    ELSE FatalitiesSum(data, n - 1)
         + (IF Len(data[n].fatalities) = 0 THEN 0 ELSE data[n].fatalities[1])

\* the severity the claim assigns to a positive total
LadderSeverity(total) ==
    CASE total >= 100 -> "Emergency"
      [] total \in 50..99 -> "Critical"
      [] total \in 10..49 -> "Warning"
      [] total \in 1..9 -> "Info"

\* C21: fetch_acled_issues holds at most one issue for each monitored country;
\* for the country whose batch it has just processed it holds one exactly when
\* the batch's total fatalities is positive, of source Acled, category Conflict
\* and severity Emergency from 100, Critical from 50, Warning from 10, else Info
C21_AcledIssuePerCountry ==
    adapter.pc \in {"acled_loop", "returned"} =>
        /\ \A k \in DOMAIN monitored_countries : Len(IssuesOf(adapter.issues, k)) <= 1
        /\ adapter.response.state = "ok" =>
              LET own == IssuesOf(adapter.issues, adapter.country - 1)
                  total == FatalitiesSum(adapter.response.data, Len(adapter.response.data))
              IN  /\ Len(own) = 1 <=> total > 0
                  /\ total > 0 =>
                        /\ own[1].severity = LadderSeverity(total)
                        /\ own[1].source = "Acled"
                        /\ own[1].category = "Conflict"

\* the second country's batch sums to exactly 50 and a Critical issue came of it,
\* after the first country's batch, without fatalities, yielded none
C21_Witness ==
    /\ adapter.pc = "acled_loop"
    /\ adapter.country = 3
    /\ adapter.response.state = "ok"
    /\ FatalitiesSum(adapter.response.data, Len(adapter.response.data)) = 50
    /\ Len(adapter.response.data) = 2
    /\ Len(adapter.issues) = 1
    /\ adapter.issues[1].severity = "Critical"
    /\ adapter.issues[1].location = monitored_countries[2].name

\* C20: top_countries has at most 10 entries; each names a location of the
\* issues with the exact number of issues of that location (issues of one
\* location_code and different locations are counted apart); the counts do not
\* increase along the list; no location left out has more issues than one listed
C20_TopCountriesByLocation ==
    (top.pc = "done")
    => LET listed == top.top_countries
           issues == top.issues
           locations == {issues[k].location : k \in DOMAIN issues}
           IssuesAt(location) ==
               Cardinality({k \in DOMAIN issues : issues[k].location = location})
           named == {listed[j].country : j \in DOMAIN listed}
       IN  /\ Len(listed) <= 10
           /\ \A j \in DOMAIN listed :
                 /\ listed[j].country \in locations
                 /\ listed[j].count = IssuesAt(listed[j].country)
           /\ \A i \in DOMAIN listed, j \in DOMAIN listed :
                 i < j => listed[i].count >= listed[j].count
           /\ \A location \in locations \ named, j \in DOMAIN listed :
                 IssuesAt(location) <= listed[j].count

\* more than ten locations are cut down to ten, those with two issues in front
\* of those with one; the first one listed shares its code with another location
C20_Witness ==
    /\ top.pc = "done"
    /\ Cardinality({top.issues[k].location : k \in DOMAIN top.issues}) > 10
    /\ Len(top.top_countries) = 10
    /\ top.top_countries[1].count = 2
    /\ top.top_countries[3].count = 1
    /\ \E i \in DOMAIN top.issues, j \in DOMAIN top.issues :
          /\ top.issues[i].location_code = top.issues[j].location_code
          /\ top.issues[i].location # top.issues[j].location
          /\ top.issues[i].location = top.top_countries[1].country

\* the positions of a list holding an issue (or an error) of a source
FromSource(q, source) == {k \in DOMAIN q : q[k].source = source}

\* C27: once the fetch for a monitored country has failed, fetch_acled_issues
\* has returned an error and no issue, whatever the countries before it gave;
\* the response of get_all_issues then has no ACLED issue, exactly one
\* SourceError for ACLED, and every issue of the other sources that succeeded
C27_AcledAllOrNothing ==
    (adapter.pc = "returned" /\ adapter.response.state = "err") =>
        /\ fetch["Acled"].state = "err"
        /\ fetch["Acled"].issues = <<>>
        /\ dash.pc = "returned" =>
              /\ FromSource(dash.response.issues, "Acled") = {}
              /\ Cardinality(FromSource(dash.response.errors, "Acled")) = 1
              /\ \A src \in SourceSet \ {"Acled"} :
                    /\ Cardinality(FromSource(dash.response.issues, src))
                          = Len(fetch[src].issues)
                    /\ \A k \in DOMAIN fetch[src].issues :
                          \E j \in DOMAIN dash.response.issues :
                             dash.response.issues[j] = fetch[src].issues[k]

\* the fetch for the second country failed after the first country had yielded
\* an issue; the response lists the other sources' four issues and one error
C27_Witness ==
    /\ adapter.pc = "returned"
    /\ adapter.response.state = "err"
    /\ adapter.country = 2
    /\ Len(adapter.issues) = 1
    /\ dash.pc = "returned"
    /\ Len(dash.response.issues) = 4
    /\ Len(dash.response.errors) = 1

\* the records of a national-risk response that carry a score of 5.0 or more
AtRisk(data) ==
    {k \in DOMAIN data :
        Len(data[k].overall_risk) = 1 /\ data[k].overall_risk[1] >= 500}

\* C22: fetch_hdx_issues returns one issue for each record whose overall risk
\* score is at least 5.0, in the records' order, and none for a record with a
\* lower or an absent score; the issue is an Emergency from 7.0 and Critical
\* below, of source HdxHapi and category HumanitarianEmergency
C22_HdxIssuePerRiskRecord ==
    (adapter.pc = "hdx_returned" /\ adapter.risk_response.state = "ok") =>
        LET data == adapter.risk_response.data
            issues == fetch["HdxHapi"].issues
            nth(k) == Cardinality({j \in AtRisk(data) : j <= k})
        IN  /\ fetch["HdxHapi"].state = "ok"
            /\ Len(issues) = Cardinality(AtRisk(data))
            /\ \A k \in AtRisk(data) :
                  /\ issues[nth(k)].location = data[k].location_name
                  /\ issues[nth(k)].location_code = data[k].location_code
                  /\ issues[nth(k)].severity =
                        IF data[k].overall_risk[1] >= 700 THEN "Emergency" ELSE "Critical"
                  /\ issues[nth(k)].source = "HdxHapi"
                  /\ issues[nth(k)].category = "HumanitarianEmergency"

\* a record scored 5.0 behind one without a score: one Critical issue, and the
\* by-source handler has answered with it
C22_Witness ==
    /\ adapter.pc = "hdx_returned"
    /\ adapter.risk_response.state = "ok"
    /\ Len(adapter.risk_response.data) = 2
    /\ adapter.risk_response.data[1].overall_risk = <<>>
    /\ adapter.risk_response.data[2].overall_risk = <<500>>
    /\ Len(fetch["HdxHapi"].issues) = 1
    /\ fetch["HdxHapi"].issues[1].severity = "Critical"
    /\ http.status = 200

\* the bucket has no signal with a timestamp in the seven windows up to now
Silent(bucket, window_minutes, now) ==
    \A i \in DOMAIN store :
        store[i].bucket = bucket =>
            \/ store[i].ts < now - (NUM_HISTORICAL_WINDOWS + 1) * window_minutes * 60
            \/ store[i].ts > now

\* C23: for a bucket without a signal in [now - 7 windows, now], compute_warmth
\* returns a current total of 0, an average of 0.0 and status Alive, and
\* generate_alerts produces no alert for it
C23_SilentBucketAlive ==
    scan.pc \notin {"idle", "buckets"} =>
        /\ \A k \in DOMAIN scan.warmth :
              Silent(scan.warmth[k].bucket, scan.window_minutes, scan.now) =>
                  /\ scan.warmth[k].current_window_total = 0
                  /\ scan.warmth[k].recent_average = Zero
                  /\ scan.warmth[k].status = "Alive"
        /\ \A bucket \in Buckets :
              Silent(bucket, scan.window_minutes, scan.now) =>
                  \A k \in DOMAIN scan.alerts : scan.alerts[k].bucket # bucket

\* generate_alerts has returned: zone-a, whose only signal is a second older
\* than seven windows, was found Alive with nothing to compare against, and
\* zone-b, whose signal lies in the history, is the only bucket alerted on
C23_Witness ==
    /\ scan.pc = "returned"
    /\ scan.window_minutes = 1
    /\ Len(store) = 2
    /\ store[1] = [bucket |-> "zone-a", ts |-> scan.now - 421, weight |-> 6]
    /\ store[2].bucket = "zone-b"
    /\ \E k \in DOMAIN scan.warmth :
          /\ scan.warmth[k].bucket = "zone-a"
          /\ scan.warmth[k].status = "Alive"
          /\ scan.warmth[k].recent_average = Zero
    /\ Len(scan.alerts) = 1
    /\ scan.alerts[1].bucket = "zone-b"
    /\ scan.alerts[1].status = "Dead"

\* the life_signals rows of a bucket with a timestamp from lo to hi
StoredIn(bucket, lo, hi) ==
    {i \in DOMAIN store : store[i].bucket = bucket /\ store[i].ts >= lo /\ store[i].ts <= hi}

RECURSIVE StoredWeight(_)
\* the weights of a set of life_signals rows, added up
StoredWeight(rows) ==
    IF rows = {} THEN 0
    ELSE LET i == CHOOSE x \in rows : TRUE
         IN  store[i].weight + StoredWeight(rows \ {i})

\* C26: the current window [now - w, now] and the history [now - 7w, now - w)
\* of compute_warmth are disjoint and adjacent: the weight of every signal of
\* the bucket in [now - 7w, now] is counted once, in the current total or in
\* the window totals the average is taken over (the average times the number
\* of occupied windows), and no other signal is counted
C26_WindowsDisjointAdjacent ==
    scan.pc \notin {"idle", "buckets"} =>
        \A k \in DOMAIN scan.warmth :
            LET w == scan.warmth[k]
                seconds == w.window_minutes * 60
                current == StoredIn(w.bucket, scan.now - seconds, scan.now)
                history == StoredIn(w.bucket, scan.now - 7 * seconds,
                                    scan.now - seconds - 1)
            IN  w.window_minutes >= 1 =>
                    /\ w.current_window_total = StoredWeight(current)
                    /\ w.recent_average.num = StoredWeight(history)
                    /\ w.current_window_total + w.recent_average.num
                          = StoredWeight(StoredIn(w.bucket, scan.now - 7 * seconds,
                                                  scan.now))

\* zone-a has a signal exactly one window old, counted in the current total,
\* and one exactly seven windows old, counted in the average
C26_Witness ==
    /\ scan.pc = "returned"
    /\ scan.window_minutes = 1
    /\ Len(store) = 2
    /\ store[1] = [bucket |-> "zone-a", ts |-> scan.now - 420, weight |-> 6]
    /\ store[2] = [bucket |-> "zone-a", ts |-> scan.now - 60, weight |-> 1]
    /\ Len(scan.warmth) = 1
    /\ scan.warmth[1].current_window_total = 1
    /\ scan.warmth[1].recent_average = Frac(6, 1)

\* C24: every Dead alert generate_alerts returns carries a last_seen_timestamp
\* earlier than now - min(lookback, 10) minutes: the bucket's newest signal
\* lies before the current window, also when signals are inserted during the scan
C24_DeadLastSeenBeforeWindow ==
    scan.pc = "returned" =>
        \A k \in DOMAIN alertsResp.body.alerts :
            alertsResp.body.alerts[k].status = "Dead" =>
                alertsResp.body.alerts[k].last_seen_timestamp
                    < scan.now - Min(scan.lookback_minutes, 10) * 60

RECURSIVE InArgumentOrder(_, _)
\* the issues of the first k futures that resolve to Ok, in the order IODA,
\* Cloudflare Radar, HDX HAPI, ReliefWeb, ACLED
InArgumentOrder(futures, k) ==
    IF k = 0 THEN <<>>
    ELSE InArgumentOrder(futures, k - 1) \o
         (IF futures[Sources[k]].state = "ok" THEN futures[Sources[k]].issues ELSE <<>>)

\* C25: the response of get_all_issues is determined by what the five adapter
\* calls resolve to, not by the order in which they complete: its errors name
\* the failed sources in the order IODA, Cloudflare Radar, HDX HAPI, ReliefWeb,
\* ACLED, and its issues are the successful adapters' issues taken in that
\* order and stably sorted, so that equal severity and timestamp keep it
C25_CompletionOrderIrrelevant ==
    (dash.pc = "returned" /\ "completed" \in DOMAIN dash) =>
        LET failed == SelectSeq(Sources, LAMBDA src : dash.futures[src].state = "err")
            issues == dash.response.issues
        IN  /\ [k \in DOMAIN dash.response.errors |-> dash.response.errors[k].source]
                  = failed
            /\ issues = sort_by(InArgumentOrder(dash.futures, Len(Sources)))
            /\ \A i, j \in DOMAIN issues :
                  (i < j /\ SameKey(issues[i], issues[j])) =>
                      SourcePos(issues[i].source) <= SourcePos(issues[j].source)

\* ACLED completed first and IODA last, with an error; HDX HAPI and ReliefWeb
\* before Cloudflare Radar, which failed: the response still lists the errors
\* of IODA and Cloudflare Radar in that order and the three Critical issues of
\* one timestamp in the order HDX HAPI, ReliefWeb, ACLED
C25_Witness ==
    /\ dash.pc = "returned"
    /\ "completed" \in DOMAIN dash
    /\ dash.completed = <<"Acled", "ReliefWeb", "HdxHapi", "CloudflareRadar", "Ioda">>
    /\ Len(dash.response.errors) = 2
    /\ dash.response.errors[1].source = "Ioda"
    /\ Len(dash.response.issues) = 5
    /\ dash.response.issues[2].source = "HdxHapi"
    /\ dash.response.issues[3].source = "ReliefWeb"
    /\ dash.response.issues[4].source = "Acled"

RECURSIVE SumOver(_, _)
\* the counts of a map added up over the keys in K
SumOver(counts, K) ==
    IF K = {} THEN 0
    ELSE LET key == CHOOSE x \in K : TRUE
         IN  counts[key] + SumOver(counts, K \ {key})

\* C28: in the summary from_issues computes for the response of get_all_issues,
\* total_issues is the number of issues returned, the sum of the four severity
\* counts, the sum of the by_source counts and the sum of the by_category counts
C28_SummaryTotalsAgree ==
    (dash.pc = "returned" /\ "completed" \in DOMAIN dash) =>
        LET summary == dash.response.summary
        IN  /\ summary.total_issues = Len(dash.response.issues)
            /\ summary.total_issues = summary.emergency_count + summary.critical_count
                                        + summary.warning_count + summary.info_count
            /\ summary.total_issues = SumOver(summary.by_source, DOMAIN summary.by_source)
            /\ summary.total_issues = SumOver(summary.by_category, DOMAIN summary.by_category)

\* six issues of four sources and every severity were returned, two of them of
\* one category, and the summary counts six
C28_Witness ==
    /\ dash.pc = "returned"
    /\ "completed" \in DOMAIN dash
    /\ Len(dash.response.issues) = 6
    /\ dash.response.summary.total_issues = 6
    /\ dash.response.summary.info_count = 1
    /\ dash.response.summary.warning_count = 1
    /\ dash.response.summary.emergency_count = 1
    /\ dash.response.summary.by_category["Conflict"] = 2
    /\ Cardinality(DOMAIN dash.response.summary.by_source) = 4

\* the times a query may be asked about
QueryNows == {now \in 0..MaxClock : now % TickSeconds = 0}

\* what the store answers about a bucket for a window and a now
Answers(st, bucket, window_minutes, now) ==
    [window_sum |-> query_bucket_window(st, bucket, window_minutes, now),
     recent_average |-> compute_recent_average(st, bucket, window_minutes,
                                               NUM_HISTORICAL_WINDOWS, now),
     last_seen |-> get_last_seen(st, bucket),
     status |-> compute_warmth(st, bucket, window_minutes, now).status]

\* C29: a step that inserts a signal into one bucket leaves window_sum,
\* recent_average, last_seen and the warmth status of every other bucket as
\* they were, for every window and now
C29_InsertLeavesOtherBuckets ==
    [][Len(store') = Len(store) + 1 =>
          \A bucket \in Buckets \ {store'[Len(store')].bucket} :
              \A window_minutes \in WindowChoices, now \in QueryNows :
                  Answers(store', bucket, window_minutes, now)
                      = Answers(store, bucket, window_minutes, now)]_vars

\* a signal was inserted into zone-b after one into zone-a, and the window sum
\* then asked for zone-a is still the weight of its own signal
C29_Witness ==
    /\ Len(store) = 2
    /\ store[1].bucket = "zone-a"
    /\ store[2].bucket = "zone-b"
    /\ ret.op = "query_bucket_window"
    /\ ret.bucket = "zone-a"
    /\ ret.window_minutes = 1
    /\ ret.total = store[1].weight
    /\ store[2].weight # 0

\* n / d (d > 0) rounded to the nearest integer, halves away from zero
Rounded(n, d) ==
    IF n >= 0 THEN (2 * n + d) \div (2 * d) ELSE -((2 * (-n) + d) \div (2 * d))

\* C30: the percentage in the message of every Collapsing alert is
\* current / average * 100 rounded to the nearest integer when the average is
\* positive, and 0 otherwise
C30_PercentageRounded ==
    \A k \in DOMAIN scan.alerts :
        scan.alerts[k].status = "Collapsing" =>
            LET current == scan.alerts[k].message.current_window_total
                average == scan.alerts[k].recent_average
            IN  scan.alerts[k].message.percentage =
                    IF average.num > 0
                    THEN Rounded(current * 100 * average.den, average.num)
                    ELSE 0

====
